---- MODULE Spec2Model ----
(***************************************************************************)
(* A model of xk6-browser-safari: the WebDriver protocol client            *)
(* (internal/browser/webdriver.go, selectors.go), the Locator built on it  *)
(* (locator.go) and the image comparison functions.                        *)
(*                                                                         *)
(* Time is counted in units of 100ms (one poll interval).                  *)
(***************************************************************************)
EXTENDS Integers, Sequences, FiniteSets, TLC

VARIABLES
    sessionID,  \* WebDriverClient.sessionID ("" = no active session)
    pc,         \* where the client is: "idle", or inside one of the two poll loops
    call,       \* the operation in progress or last completed, with its arguments
    ret,        \* what the last completed operation returned
    sent,       \* the HTTP requests (httpClient.Do calls) of the operation, polls excepted
    lastPoll,   \* outcome of the latest condition-script execution of the wait
    now,        \* time elapsed since the wait started, in units of 100ms
    tick,       \* whether time.Ticker's channel holds a tick (it buffers one)
    hasPage,    \* whether Browser.NewPage has returned a Page
    loc,        \* the Locator the script holds
    found,      \* the Locators the last Locator.All returned
    img1,       \* first decoded image handed to an image function
    img2,       \* second decoded image
    imgRes,     \* what the image function returned
    fnArg,      \* the arguments a pure function of the package is applied to
    fnOut,      \* what that function returned
    goroutines, \* the goroutines Promise started on the client: position and locals
    sessions,   \* the session ids that are live at the endpoint
    safariDriverMu,    \* holder of the mutex safariDriverMu (0 = unlocked)
    safariDriverCmd,   \* the process handle safariDriverCmd (0 = nil)
    safariDriverRefs,  \* the reference count safariDriverRefs
    processes,  \* the safaridriver processes this program started: "running" or "killed"
    instances   \* the module instances: position of their script, client and browser

vars == <<sessionID, pc, call, ret, sent, lastPoll, now, tick, hasPage, loc, found,
          img1, img2, imgRes, fnArg, fnOut, goroutines, sessions, safariDriverMu,
          safariDriverCmd, safariDriverRefs, processes, instances>>

waitVars == <<lastPoll, now, tick>>
locatorVars == <<hasPage, loc, found>>
imageVars == <<img1, img2, imgRes>>
funVars == <<fnArg, fnOut>>
sessionVars == <<goroutines, sessions>>
driverVars == <<safariDriverMu, safariDriverCmd, safariDriverRefs, processes, instances>>
hostVars == <<sessionVars, driverVars>>

(***************************************************************************)
(* Program constants, in units of 100ms.                                   *)
(***************************************************************************)
PollInterval == 1

WaitTimeout == 300

SettleDelay == 5

StatusOK == 200

(***************************************************************************)
(* Bounds of the model.                                                    *)
(***************************************************************************)
\* longest condition-script execution, in units of 100ms
MaxExecDur == 2

\* how long after its deadline WaitForSelector's select may still pick the ticker
MaxOverrun == 3

\* largest width and height of a decoded image
MaxDim == 2

\* longest text that follows (or replaces) the prefix of a selector
MaxTail == 2

\* longest string given to IsRegex and ParseRegex
MaxRegexLen == 4

\* number of module instances (one per VU) that share the process
MaxInstances == 2

(***************************************************************************)
(* Errors: Go error values as chains of messages, outermost first          *)
(* (fmt.Errorf("...: %w", err) wraps).  Nil is the nil error.              *)
(***************************************************************************)
Nil == <<>>

Err(msg) == <<[msg |-> msg, status |-> 0, remote |-> ""]>>

ErrStatus(msg, status, remote) == <<[msg |-> msg, status |-> status, remote |-> remote]>>

Wrap(msg, e) == Err(msg) \o e

HasMsg(e, msg) == \E i \in 1..Len(e) : e[i].msg = msg

NoActiveSession == "no active session"

IsNoActiveSession(e) == HasMsg(e, NoActiveSession)

(***************************************************************************)
(* JSON values as the endpoint sends them and encoding/json decodes them.  *)
(* An element reference object has up to two keys; a key's value is        *)
(* Absent (no such key), NonString (a number, say) or a string.            *)
(***************************************************************************)
Absent == "<absent>"
NonString == "<non-string>"

ElementIDs == {"e1", "e2"}
KeyValues == {Absent, NonString, ""} \cup ElementIDs

JV(k, b, s, m, l, items) == [k |-> k, b |-> b, s |-> s, m |-> m, l |-> l, items |-> items]

VMalformed == JV("malformed", FALSE, "", Absent, Absent, <<>>)
VNull == JV("null", FALSE, "", Absent, Absent, <<>>)
VBool(b) == JV("bool", b, "", Absent, Absent, <<>>)
VStr(s) == JV("string", FALSE, s, Absent, Absent, <<>>)
VNum == JV("number", FALSE, "", Absent, Absent, <<>>)
\* an object: s is its "sessionId" or "message" string when it has one
VSession(s) == JV("session", FALSE, s, Absent, Absent, <<>>)
VMessage(s) == JV("message", FALSE, s, Absent, Absent, <<>>)
\* an object with the element reference keys m (modern) and l (legacy)
VRef(m, l) == JV("object", FALSE, "", m, l, <<>>)
VList(items) == JV("array", FALSE, "", Absent, Absent, items)
\* the object the click script returns: {success: b, error, info}
VClick(b) == JV("click", b, "", Absent, Absent, <<>>)
\* the object the viewport script returns; items are width, height, devicePixelRatio,
\* each a number n or not one
VViewport(w, h, d) == JV("viewport", FALSE, "", Absent, Absent, <<w, h, d>>)
Num(n) == [isNum |-> TRUE, n |-> n]
NotNum == [isNum |-> FALSE, n |-> 0]

SessionIDs == {"s1", "s2", "s\n"}

\* url.Parse rejects a control character: http.NewRequestWithContext fails
UrlOk(sid) == sid # "s\n"

Refs == { VRef(m, l) : m \in KeyValues, l \in KeyValues }

RefLists ==
    {<<>>, <<VRef("e1", Absent)>>, <<VRef(Absent, "e2")>>,
     <<VRef("e1", "e2"), VRef(Absent, Absent)>>, <<VRef("", "e2"), VRef("e1", Absent)>>,
     <<VNull, VRef("e2", Absent)>>, <<VRef(NonString, "e1")>>, <<VRef("", "")>>}

Statuses == {200, 204, 404, 500}

\* what one HTTP exchange can come to: a transport failure, or a status and a body
Transport == [t |-> "transport", status |-> 0, body |-> VMalformed]
Http(status, body) == [t |-> "http", status |-> status, body |-> body]

\* an exchange that fails: in transport, or with a status other than 200
Failures ==
    {Transport, Http(404, VMessage("boom")), Http(500, VMalformed), Http(204, VNull)}

RespOf(values) == Failures \cup { Http(200, v) : v \in values }

IsObject(v) == v.k \in {"object", "session", "message", "viewport", "click"}

(***************************************************************************)
(* What an operation returns: its error, its value, the requests it sent   *)
(* and the session id it leaves in the client.                             *)
(***************************************************************************)
R(err, val, reqs, sid) == [err |-> err, val |-> val, reqs |-> reqs, sid |-> sid]

NoVal == "<none>"

\* the error body {value:{message}} of a non-200 response, "" when there is none
RemoteMessage(resp) == IF resp.body.k = "message" THEN resp.body.s ELSE ""

(***************************************************************************)
(* webdriver.go: session commands                                          *)
(***************************************************************************)
\* a CreateSession that would store the decoded id before it reads the status
CreateSessionEarly(sid, resp) ==
    LET reqs == <<"POST /session">> IN
    IF resp.t = "transport" THEN R(Err("failed to create session"), NoVal, reqs, sid)
    ELSE IF resp.body.k \in {"malformed", "bool", "string", "number", "array"}
    THEN R(Err("failed to decode session response"), NoVal, reqs, sid)
    ELSE LET id == IF resp.body.k = "session" THEN resp.body.s ELSE "" IN
         IF resp.status # StatusOK
         THEN R(ErrStatus("session creation failed with status", resp.status, ""), NoVal, reqs, id)
         ELSE R(Nil, id, reqs, id)

CreateSession(sid, resp) ==
    LET reqs == <<"POST /session">> IN
    IF resp.t = "transport" THEN R(Err("failed to create session"), NoVal, reqs, sid)
    ELSE IF resp.status # StatusOK
    THEN R(ErrStatus("session creation failed with status", resp.status, ""), NoVal, reqs, sid)
    ELSE IF resp.body.k \in {"malformed", "bool", "string", "number", "array"}
    THEN R(Err("failed to decode session response"), NoVal, reqs, sid)
    ELSE LET id == IF resp.body.k = "session" THEN resp.body.s ELSE "" IN
         R(Nil, id, reqs, id)

\* a DeleteSession that would report a non-200 status as an error
DeleteSessionStrict(sid, resp) ==
    LET reqs == <<"DELETE /session/{id}">> IN
    IF sid = "" THEN R(Nil, NoVal, <<>>, sid)
    ELSE IF ~UrlOk(sid) THEN R(Nil, NoVal, <<>>, sid)
    ELSE IF resp.t = "transport" THEN R(Nil, NoVal, reqs, sid)
    ELSE IF resp.status # StatusOK
    THEN R(ErrStatus("session deletion failed with status", resp.status, ""), NoVal, reqs, "")
    ELSE R(Nil, NoVal, reqs, "")

DeleteSession(sid, resp) ==
    LET reqs == <<"DELETE /session/{id}">> IN
    IF sid = "" THEN R(Nil, NoVal, <<>>, sid)
    ELSE IF ~UrlOk(sid) THEN R(Nil, NoVal, <<>>, sid)
    ELSE IF resp.t = "transport" THEN R(Nil, NoVal, reqs, sid)
    ELSE IF resp.status # StatusOK THEN R(Nil, NoVal, reqs, "")
    ELSE R(Nil, NoVal, reqs, "")

(***************************************************************************)
(* webdriver.go: single-exchange commands                                  *)
(***************************************************************************)
\* decoding {value: ...} into a Go string: null leaves "", another type fails
DecodesAsString(v) == v.k \in {"string", "null"}

GetAllCookies(sid, resp) ==
    LET reqs == <<"GET /cookie">> IN
    IF sid = "" THEN R(Err(NoActiveSession), NoVal, <<>>, sid)
    ELSE IF ~UrlOk(sid) THEN R(Err("failed to create request"), NoVal, <<>>, sid)
    ELSE IF resp.t = "transport" THEN R(Err("failed to get cookies"), NoVal, reqs, sid)
    ELSE IF resp.status # StatusOK
    THEN R(ErrStatus("get cookies failed with status", resp.status, ""), NoVal, reqs, sid)
    ELSE IF resp.body.k \notin {"array", "null"}
    THEN R(Err("failed to decode cookies response"), NoVal, reqs, sid)
    ELSE R(Nil, resp.body, reqs, sid)

SetWindowSize(sid, resp) ==
    LET reqs == <<"POST /window/rect">> IN
    IF sid = "" THEN R(Err(NoActiveSession), NoVal, <<>>, sid)
    ELSE IF ~UrlOk(sid)
    THEN R(Err("failed to create set window size request"), NoVal, <<>>, sid)
    ELSE IF resp.t = "transport" THEN R(Err("failed to set window size"), NoVal, reqs, sid)
    ELSE IF resp.status # StatusOK
    THEN R(ErrStatus("set window size failed with status", resp.status, ""), NoVal, reqs, sid)
    ELSE R(Nil, NoVal, reqs, sid)

GetCurrentURL(sid, resp) ==
    LET reqs == <<"GET /url">> IN
    IF sid = "" THEN R(Err(NoActiveSession), NoVal, <<>>, sid)
    ELSE IF ~UrlOk(sid) THEN R(Err("failed to create get URL request"), NoVal, <<>>, sid)
    ELSE IF resp.t = "transport" THEN R(Err("failed to get current URL"), NoVal, reqs, sid)
    ELSE IF resp.status # StatusOK
    THEN R(ErrStatus("get URL failed with status", resp.status, ""), NoVal, reqs, sid)
    ELSE IF ~DecodesAsString(resp.body)
    THEN R(Err("failed to decode URL response"), NoVal, reqs, sid)
    ELSE R(Nil, resp.body.s, reqs, sid)

\* a GetTitle that would try once more after a transport failure
GetTitleRetry(sid, resp) ==
    LET reqs == <<"GET /title">> IN
    IF sid = "" THEN R(Err(NoActiveSession), NoVal, <<>>, sid)
    ELSE IF ~UrlOk(sid) THEN R(Err("failed to create get title request"), NoVal, <<>>, sid)
    ELSE IF resp.t = "transport" THEN R(Err("failed to get title"), NoVal, reqs \o reqs, sid)
    ELSE IF resp.status # StatusOK
    THEN R(ErrStatus("get title failed with status", resp.status, ""), NoVal, reqs, sid)
    ELSE IF ~DecodesAsString(resp.body)
    THEN R(Err("failed to decode title response"), NoVal, reqs, sid)
    ELSE R(Nil, resp.body.s, reqs, sid)

GetTitle(sid, resp) ==
    LET reqs == <<"GET /title">> IN
    IF sid = "" THEN R(Err(NoActiveSession), NoVal, <<>>, sid)
    ELSE IF ~UrlOk(sid) THEN R(Err("failed to create get title request"), NoVal, <<>>, sid)
    ELSE IF resp.t = "transport" THEN R(Err("failed to get title"), NoVal, reqs, sid)
    ELSE IF resp.status # StatusOK
    THEN R(ErrStatus("get title failed with status", resp.status, ""), NoVal, reqs, sid)
    ELSE IF ~DecodesAsString(resp.body)
    THEN R(Err("failed to decode title response"), NoVal, reqs, sid)
    ELSE R(Nil, resp.body.s, reqs, sid)

\* an ExecuteScript that would not test the session id
ExecuteScriptNoGuard(sid, resp) ==
    LET reqs == <<"POST /execute/sync">> IN
    IF sid # "" /\ ~UrlOk(sid)
    THEN R(Err("failed to create execute script request"), VNull, <<>>, sid)
    ELSE IF resp.t = "transport" THEN R(Err("failed to execute script"), VNull, reqs, sid)
    ELSE IF resp.status # StatusOK
    THEN R(ErrStatus("script execution failed with status", resp.status, RemoteMessage(resp)),
           VNull, reqs, sid)
    ELSE IF resp.body.k = "malformed"
    THEN R(Err("failed to decode script response"), VNull, reqs, sid)
    ELSE R(Nil, resp.body, reqs, sid)

ExecuteScript(sid, resp) ==
    LET reqs == <<"POST /execute/sync">> IN
    IF sid = "" THEN R(Err(NoActiveSession), VNull, <<>>, sid)
    ELSE IF ~UrlOk(sid)
    THEN R(Err("failed to create execute script request"), VNull, <<>>, sid)
    ELSE IF resp.t = "transport" THEN R(Err("failed to execute script"), VNull, reqs, sid)
    ELSE IF resp.status # StatusOK
    THEN R(ErrStatus("script execution failed with status", resp.status, RemoteMessage(resp)),
           VNull, reqs, sid)
    ELSE IF resp.body.k = "malformed"
    THEN R(Err("failed to decode script response"), VNull, reqs, sid)
    ELSE R(Nil, resp.body, reqs, sid)

\* SendKeys puts the element id in the URL
SendKeys(sid, elementID, resp) ==
    LET reqs == <<"POST /element/{id}/value">> IN
    IF sid = "" THEN R(Err(NoActiveSession), NoVal, <<>>, sid)
    ELSE IF ~UrlOk(sid) THEN R(Err("failed to create send keys request"), NoVal, <<>>, sid)
    ELSE IF resp.t = "transport" THEN R(Err("failed to send keys"), NoVal, reqs, sid)
    ELSE IF resp.status # StatusOK
    THEN R(ErrStatus("send keys failed with status", resp.status, ""), NoVal, reqs, sid)
    ELSE R(Nil, NoVal, reqs, sid)

(***************************************************************************)
(* selectors.go: selector strings are sequences of characters              *)
(***************************************************************************)
HasPrefix(s, p) == Len(s) >= Len(p) /\ SubSeq(s, 1, Len(p)) = p

TrimPrefix(s, p) == IF HasPrefix(s, p) THEN SubSeq(s, Len(p) + 1, Len(s)) ELSE s

StrategyCSSSelector == "css selector"
StrategyXPath == "xpath"
StrategyLinkText == "link text"
StrategyPartialLinkText == "partial link text"
StrategyID == "id"
StrategyClassName == "class name"
StrategyTagName == "tag name"
StrategyText == "text"
StrategyDataTestID == "data-testid"
StrategyAriaLabel == "aria-label"
StrategyRole == "role"
StrategyVisibleText == "visible-text"

ParsedSelector(strategy, value, isNative) ==
    [Strategy |-> strategy, Value |-> value, IsNative |-> isNative]

PfxXPath == <<"x", "p", "a", "t", "h", "=">>
PfxSlashes == <<"/", "/">>
PfxParenSlashes == <<"(", "/", "/">>
PfxText == <<"t", "e", "x", "t", "=">>
PfxVisibleText == <<"v", "i", "s", "i", "b", "l", "e", "-", "t", "e", "x", "t", "=">>
PfxID == <<"i", "d", "=">>
PfxClass == <<"c", "l", "a", "s", "s", "=">>
PfxTag == <<"t", "a", "g", "=">>
PfxLink == <<"l", "i", "n", "k", "=">>
PfxPartialLink == <<"p", "a", "r", "t", "i", "a", "l", "-", "l", "i", "n", "k", "=">>
PfxDataTestID == <<"d", "a", "t", "a", "-", "t", "e", "s", "t", "i", "d", "=">>
PfxAriaLabel == <<"a", "r", "i", "a", "-", "l", "a", "b", "e", "l", "=">>
PfxRole == <<"r", "o", "l", "e", "=">>

\* a ParseSelector that would cut the bare "//" off and know no other prefix
ParseSelectorSlashesCut(selector) ==
    IF HasPrefix(selector, PfxSlashes)
    THEN ParsedSelector(StrategyXPath, TrimPrefix(selector, PfxSlashes), TRUE)
    ELSE ParsedSelector(StrategyCSSSelector, selector, TRUE)

ParseSelector(selector) ==
    IF HasPrefix(selector, PfxXPath)
    THEN ParsedSelector(StrategyXPath, TrimPrefix(selector, PfxXPath), TRUE)
    ELSE IF HasPrefix(selector, PfxSlashes) \/ HasPrefix(selector, PfxParenSlashes)
    THEN ParsedSelector(StrategyXPath, selector, TRUE)
    ELSE IF HasPrefix(selector, PfxText)
    THEN ParsedSelector(StrategyText, TrimPrefix(selector, PfxText), FALSE)
    ELSE IF HasPrefix(selector, PfxVisibleText)
    THEN ParsedSelector(StrategyVisibleText, TrimPrefix(selector, PfxVisibleText), FALSE)
    ELSE IF HasPrefix(selector, PfxID)
    THEN ParsedSelector(StrategyID, TrimPrefix(selector, PfxID), TRUE)
    ELSE IF HasPrefix(selector, PfxClass)
    THEN ParsedSelector(StrategyClassName, TrimPrefix(selector, PfxClass), TRUE)
    ELSE IF HasPrefix(selector, PfxTag)
    THEN ParsedSelector(StrategyTagName, TrimPrefix(selector, PfxTag), TRUE)
    ELSE IF HasPrefix(selector, PfxLink)
    THEN ParsedSelector(StrategyLinkText, TrimPrefix(selector, PfxLink), TRUE)
    ELSE IF HasPrefix(selector, PfxPartialLink)
    THEN ParsedSelector(StrategyPartialLinkText, TrimPrefix(selector, PfxPartialLink), TRUE)
    ELSE IF HasPrefix(selector, PfxDataTestID)
    THEN ParsedSelector(StrategyDataTestID, TrimPrefix(selector, PfxDataTestID), FALSE)
    ELSE IF HasPrefix(selector, PfxAriaLabel)
    THEN ParsedSelector(StrategyAriaLabel, TrimPrefix(selector, PfxAriaLabel), FALSE)
    ELSE IF HasPrefix(selector, PfxRole)
    THEN ParsedSelector(StrategyRole, TrimPrefix(selector, PfxRole), FALSE)
    ELSE ParsedSelector(StrategyCSSSelector, selector, TRUE)

(***************************************************************************)
(* selectors.go, webdriver.go: element lookup                              *)
(***************************************************************************)
\* a typed decode into struct{ElementID, ELEMENT string}: a key that is not a
\* string fails the decode, a missing key or null leaves ""
DecodesAsRef(v) == v.k = "null" \/ (IsObject(v) /\ v.m # NonString /\ v.l # NonString)

FieldOf(x) == IF x = Absent THEN "" ELSE x

findElementNative(sid, resp) ==
    LET reqs == <<"POST /element">> IN
    IF sid = "" THEN R(Err(NoActiveSession), "", <<>>, sid)
    ELSE IF ~UrlOk(sid) THEN R(Err("failed to create find element request"), "", <<>>, sid)
    ELSE IF resp.t = "transport" THEN R(Err("failed to find element"), "", reqs, sid)
    ELSE IF resp.status # StatusOK
    THEN R(ErrStatus("find element failed with status", resp.status, RemoteMessage(resp)),
           "", reqs, sid)
    ELSE IF ~DecodesAsRef(resp.body)
    THEN R(Err("failed to decode element response"), "", reqs, sid)
    ELSE IF FieldOf(resp.body.m) # "" THEN R(Nil, resp.body.m, reqs, sid)
    ELSE IF FieldOf(resp.body.l) # "" THEN R(Nil, resp.body.l, reqs, sid)
    ELSE R(Err("element not found"), "", reqs, sid)

\* a key of a decoded map asserted to be a string: elemMap[key].(string)
IsStringKey(x) == x \notin {Absent, NonString}

findElementCustom(sid, resp) ==
    LET r == ExecuteScript(sid, resp) IN
    IF r.err # Nil
    THEN R(Wrap("failed to execute selector script", r.err), "", r.reqs, sid)
    ELSE IF r.val.k = "null" THEN R(Err("element not found"), "", r.reqs, sid)
    ELSE IF IsObject(r.val) /\ IsStringKey(r.val.m) THEN R(Nil, r.val.m, r.reqs, sid)
    ELSE IF IsObject(r.val) /\ IsStringKey(r.val.l) THEN R(Nil, r.val.l, r.reqs, sid)
    ELSE R(Err("invalid element reference returned"), "", r.reqs, sid)

FindElementWithStrategy(sid, selector, resp) ==
    IF ParseSelector(selector).IsNative
    THEN findElementNative(sid, resp)
    ELSE findElementCustom(sid, resp)

FindElement(sid, selector, resp) == FindElementWithStrategy(sid, selector, resp)

RECURSIVE NativeIDs(_)
NativeIDs(items) ==
    IF items = <<>> THEN <<>>
    ELSE LET elem == Head(items) IN
         (IF FieldOf(elem.m) # "" THEN <<elem.m>>
          ELSE IF FieldOf(elem.l) # "" THEN <<elem.l>>
          ELSE <<>>) \o NativeIDs(Tail(items))

\* a typed decode into a slice of reference structs
DecodesAsRefs(v) ==
    v.k = "null" \/ (v.k = "array" /\ \A i \in 1..Len(v.items) : DecodesAsRef(v.items[i]))

\* a findAllElementsNative that would treat an empty list like a failed single lookup
findAllElementsNativeStrict(sid, resp) ==
    LET reqs == <<"POST /elements">> IN
    IF sid = "" THEN R(Err(NoActiveSession), <<>>, <<>>, sid)
    ELSE IF ~UrlOk(sid) THEN R(Err("failed to create find elements request"), <<>>, <<>>, sid)
    ELSE IF resp.t = "transport" THEN R(Err("failed to find elements"), <<>>, reqs, sid)
    ELSE IF resp.status # StatusOK
    THEN R(ErrStatus("find elements failed with status", resp.status, ""), <<>>, reqs, sid)
    ELSE IF ~DecodesAsRefs(resp.body)
    THEN R(Err("failed to decode elements response"), <<>>, reqs, sid)
    ELSE IF NativeIDs(resp.body.items) = <<>> THEN R(Err("element not found"), <<>>, reqs, sid)
    ELSE R(Nil, NativeIDs(resp.body.items), reqs, sid)

findAllElementsNative(sid, resp) ==
    LET reqs == <<"POST /elements">> IN
    IF sid = "" THEN R(Err(NoActiveSession), <<>>, <<>>, sid)
    ELSE IF ~UrlOk(sid) THEN R(Err("failed to create find elements request"), <<>>, <<>>, sid)
    ELSE IF resp.t = "transport" THEN R(Err("failed to find elements"), <<>>, reqs, sid)
    ELSE IF resp.status # StatusOK
    THEN R(ErrStatus("find elements failed with status", resp.status, ""), <<>>, reqs, sid)
    ELSE IF ~DecodesAsRefs(resp.body)
    THEN R(Err("failed to decode elements response"), <<>>, reqs, sid)
    ELSE R(Nil, NativeIDs(resp.body.items), reqs, sid)

RECURSIVE CustomIDs(_)
CustomIDs(items) ==
    IF items = <<>> THEN <<>>
    ELSE LET elem == Head(items) IN
         (IF IsObject(elem) /\ IsStringKey(elem.m) THEN <<elem.m>>
          ELSE IF IsObject(elem) /\ IsStringKey(elem.l) THEN <<elem.l>>
          ELSE <<>>) \o CustomIDs(Tail(items))

findAllElementsCustom(sid, resp) ==
    LET r == ExecuteScript(sid, resp) IN
    IF r.err # Nil
    THEN R(Wrap("failed to execute selector script", r.err), <<>>, r.reqs, sid)
    ELSE IF r.val.k = "null" THEN R(Nil, <<>>, r.reqs, sid)
    ELSE IF r.val.k = "array" THEN R(Nil, CustomIDs(r.val.items), r.reqs, sid)
    ELSE R(Nil, <<>>, r.reqs, sid)

FindAllElements(sid, selector, resp) ==
    IF ParseSelector(selector).IsNative
    THEN findAllElementsNative(sid, resp)
    ELSE findAllElementsCustom(sid, resp)

FindElements(sid, selector, resp) ==
    LET r == FindAllElements(sid, selector, resp) IN
    IF r.err # Nil THEN R(r.err, 0, r.reqs, sid) ELSE R(Nil, Len(r.val), r.reqs, sid)

(***************************************************************************)
(* webdriver.go: ClickElement, TakeScreenshot                              *)
(***************************************************************************)
ClickElement(sid, resp) ==
    IF sid = "" THEN R(Err(NoActiveSession), NoVal, <<>>, sid)
    ELSE LET r == ExecuteScript(sid, resp) IN
         IF r.err # Nil
         THEN R(Wrap("failed to click element via JavaScript", r.err), NoVal, r.reqs, sid)
         ELSE IF r.val.k = "click" /\ ~r.val.b THEN R(Err("click failed"), NoVal, r.reqs, sid)
         ELSE R(Nil, NoVal, r.reqs, sid)

\* the screenshot command's payload strings and what base64 decodes them to:
\* bytes that are a PNG of ShotW x ShotH, bytes that are no PNG, or a decode error
ShotW == 3
ShotH == 2
ShotStrings == {"not base64", "anVuaw==", "iVBORw0K"}
Base64Decodes(s) == s # "not base64"
Bytes(isPNG, w, h) == [isPNG |-> isPNG, w |-> w, h |-> h]
NoBytes == Bytes(FALSE, 0, 0)
DecodeString(s) == IF s = "iVBORw0K" THEN Bytes(TRUE, ShotW, ShotH) ELSE NoBytes

takeFullScreenshot(sid, resp) ==
    LET reqs == <<"GET /screenshot">> IN
    IF ~UrlOk(sid) THEN R(Err("failed to create screenshot request"), NoBytes, <<>>, sid)
    ELSE IF resp.t = "transport" THEN R(Err("failed to take screenshot"), NoBytes, reqs, sid)
    ELSE IF resp.status # StatusOK
    THEN R(ErrStatus("screenshot failed with status", resp.status, ""), NoBytes, reqs, sid)
    ELSE IF ~DecodesAsString(resp.body)
    THEN R(Err("failed to decode screenshot response"), NoBytes, reqs, sid)
    ELSE IF ~Base64Decodes(resp.body.s)
    THEN R(Err("failed to decode base64 screenshot"), NoBytes, reqs, sid)
    ELSE R(Nil, DecodeString(resp.body.s), reqs, sid)

Min(a, b) == IF a < b THEN a ELSE b

\* cropImage: [err, bytes]
cropImage(imageData, width, height) ==
    IF ~imageData.isPNG THEN [err |-> Err("failed to decode PNG"), bytes |-> NoBytes]
    ELSE IF width >= imageData.w /\ height >= imageData.h
    THEN [err |-> Nil, bytes |-> imageData]
    ELSE IF Min(width, imageData.w) <= 0 \/ Min(height, imageData.h) <= 0
    THEN [err |-> Err("png: invalid format: invalid image size"), bytes |-> NoBytes]
    ELSE [err |-> Nil,
          bytes |-> Bytes(TRUE, Min(width, imageData.w), Min(height, imageData.h))]

NumOr(x, default) == IF x.isNum THEN x.n ELSE default

\* a TakeScreenshot that would fail the call when the crop fails
TakeScreenshotStrict(sid, vpResp, shotResp) ==
    IF sid = "" THEN R(Err(NoActiveSession), NoBytes, <<>>, sid)
    ELSE
    LET v == ExecuteScript(sid, vpResp)
        full == takeFullScreenshot(sid, shotResp)
        fallback == R(full.err, full.val, v.reqs \o full.reqs, sid)
    IN  IF v.err # Nil THEN fallback
        ELSE IF ~IsObject(v.val) THEN fallback
        ELSE
        LET isVp == v.val.k = "viewport"
            width == IF isVp THEN NumOr(v.val.items[1], 0) ELSE 0
            height == IF isVp THEN NumOr(v.val.items[2], 0) ELSE 0
            dpr == IF isVp THEN NumOr(v.val.items[3], 1) ELSE 1
        IN  IF width = 0 \/ height = 0 THEN fallback
            ELSE IF full.err # Nil THEN fallback
            ELSE LET c == cropImage(full.val, width * dpr, height * dpr) IN
                 R(c.err, c.bytes, v.reqs \o full.reqs, sid)

TakeScreenshot(sid, vpResp, shotResp) ==
    IF sid = "" THEN R(Err(NoActiveSession), NoBytes, <<>>, sid)
    ELSE
    LET v == ExecuteScript(sid, vpResp)
        full == takeFullScreenshot(sid, shotResp)
        fallback == R(full.err, full.val, v.reqs \o full.reqs, sid)
    IN  IF v.err # Nil THEN fallback
        ELSE IF ~IsObject(v.val) THEN fallback
        ELSE
        LET isVp == v.val.k = "viewport"
            width == IF isVp THEN NumOr(v.val.items[1], 0) ELSE 0
            height == IF isVp THEN NumOr(v.val.items[2], 0) ELSE 0
            dpr == IF isVp THEN NumOr(v.val.items[3], 1) ELSE 1
        IN  IF width = 0 \/ height = 0 THEN fallback
            ELSE IF full.err # Nil THEN fallback
            ELSE LET c == cropImage(full.val, width * dpr, height * dpr) IN
                 IF c.err # Nil THEN fallback
                 ELSE R(Nil, c.bytes, v.reqs \o full.reqs, sid)

(***************************************************************************)
(* webdriver.go: Navigate's command, and the outcome of one poll           *)
(***************************************************************************)
NilOptions == "<nil>"
WaitUntils == {NilOptions, "", "load", "domcontentloaded", "networkidle", "commit"}

\* options == nil and WaitUntil == "" both default to "load"
EffectiveWaitUntil(options) == IF options \in {NilOptions, ""} THEN "load" ELSE options

NavigateCommand(sid, resp) ==
    LET reqs == <<"POST /url">> IN
    IF sid = "" THEN R(Err(NoActiveSession), NoVal, <<>>, sid)
    ELSE IF ~UrlOk(sid) THEN R(Err("failed to create navigate request"), NoVal, <<>>, sid)
    ELSE IF resp.t = "transport" THEN R(Err("failed to navigate"), NoVal, reqs, sid)
    ELSE IF resp.status # StatusOK
    THEN R(ErrStatus("navigation failed with status", resp.status, ""), NoVal, reqs, sid)
    ELSE R(Nil, NoVal, reqs, sid)

\* a test that would take every result but null and false for satisfied
SatisfiedTruthy(r) == r.err = Nil /\ r.val.k # "null" /\ (r.val.k = "bool" => r.val.b)

\* result.(bool) && result
Satisfied(r) == r.err = Nil /\ r.val.k = "bool" /\ r.val.b

PollOutcome(r) ==
    IF r.err # Nil THEN "error"
    ELSE IF r.val.k # "bool" THEN "other"
    ELSE IF r.val.b THEN "true" ELSE "false"

\* "timeout waiting for selector '%s' to be %s"
ErrTimeout(selector, state) ==
    <<[msg |-> "timeout waiting for selector", status |-> 0, remote |-> "",
       selector |-> selector, state |-> state]>>

IsTimeout(e) ==
    \/ HasMsg(e, "timeout waiting for selector")
    \/ HasMsg(e, "timeout waiting for condition after 30s")

(***************************************************************************)
(* The inputs the operations are called with, and the endpoint's answers.  *)
(***************************************************************************)
SelCSS == <<"a">>
SelRole == <<"r", "o", "l", "e", "=", "b">>
Selectors == {SelCSS, SelRole}
WaitStates == {"visible", "detached"}

SessionResponses ==
    RespOf({VMalformed, VNull, VStr("x"), VMessage("boom")}
           \cup { VSession(s) : s \in SessionIDs \cup {""} })
    \cup { Http(st, VSession("s2")) : st \in Statuses \ {200} }
PlainResponses == RespOf({VMalformed, VNull, VStr("x"), VList(<<>>)})
ScriptResponses ==
    RespOf({VMalformed, VNull, VBool(TRUE), VBool(FALSE), VStr("x"), VList(<<>>),
            VRef("e1", Absent), VClick(TRUE), VClick(FALSE)})
\* the W3C answer to a find-element command that matches nothing
NoSuchElement == Http(404, VMessage("no such element"))
ElementResponses == RespOf({VMalformed, VNull, VStr("x")} \cup Refs) \cup {NoSuchElement}
ElementsResponses == RespOf({VMalformed, VNull, VStr("x"), VRef("e1", Absent)}
                            \cup { VList(a) : a \in RefLists })
ViewportResponses ==
    RespOf({VNull, VStr("x"),
            VViewport(Num(0), Num(2), Num(1)), VViewport(Num(2), NotNum, Num(1)),
            VViewport(Num(2), Num(1), NotNum), VViewport(Num(1), Num(1), Num(2)),
            VViewport(Num(4), Num(1), Num(1)), VViewport(Num(4), Num(4), Num(1)),
            VViewport(Num(1), Num(1), Num(0))})
ShotResponses == RespOf({VMalformed, VNum} \cup { VStr(x) : x \in ShotStrings })
\* Navigate reads the status of the answer only
NavigateResponses == RespOf({VNull})
PollResponses == RespOf({VMalformed, VNull, VBool(TRUE), VBool(FALSE), VStr("x")})

(***************************************************************************)
(* State after NewWebDriverClient.                                         *)
(***************************************************************************)
NoCall == [op |-> "NewWebDriverClient", sel |-> <<>>, arg |-> "", pre |-> "", bound |-> ""]
NoRet == [err |-> Nil, val |-> NoVal, resps |-> <<>>, lookups |-> 0]
NoLocator == [selector |-> <<>>, elementID |-> ""]
\* a uint32 as its two 16-bit halves
U32(hi, lo) == [hi |-> hi, lo |-> lo]

\* bytes that png.Decode rejects
NoImage == [w |-> 0, h |-> 0, px |-> <<>>]
NoArg == [fn |-> "none"]
NoOut == [fn |-> "none"]
NoFun == fnArg = NoArg /\ fnOut = NoOut

\* the goroutines Promise runs on one client: browser.newPage() and page.close()
Goroutines == {"newPage", "close"}
NoGoroutine == [pc |-> "none", id |-> "", resp |-> Transport]

Instances == 1..MaxInstances
\* the handle and the count a call of StartSafariDriver found when it took the lock
NoEntry == [cmd |-> 0, refs |-> 0]

NoInstance ==
    [pc |-> "new", op |-> "", err |-> FALSE, acquired |-> 0, sessionID |-> "",
     page |-> "none", closed |-> FALSE, releases |-> 0, entry |-> NoEntry]

\* no goroutine started, no session at the endpoint, the package variables of
\* browser.go at their zero values, no module instance loaded
NoHost ==
    /\ goroutines = [g \in Goroutines |-> NoGoroutine]
    /\ sessions = {}
    /\ safariDriverMu = 0
    /\ safariDriverCmd = 0
    /\ safariDriverRefs = 0
    /\ processes = <<>>
    /\ instances = [i \in Instances |-> NoInstance]

NoImageResult ==
    [op |-> "none", threshold |-> U32(0, 0), err |-> Nil, count |-> 0, score |-> <<0, 1>>,
     diff |-> NoImage, buf1 |-> <<0, 0>>, buf2 |-> <<0, 0>>, written |-> FALSE,
     filePath |-> "", crop |-> <<0, 0>>, original |-> FALSE]

InitClient ==
    /\ sessionID = ""
    /\ pc = "idle"
    /\ call = NoCall
    /\ ret = NoRet
    /\ sent = <<>>
    /\ lastPoll = "none"
    /\ now = 0
    /\ tick = FALSE
    /\ hasPage = FALSE
    /\ loc = NoLocator
    /\ found = <<>>

Init ==
    /\ InitClient
    /\ img1 = NoImage
    /\ img2 = NoImage
    /\ imgRes = NoImageResult
    /\ NoFun
    /\ NoHost

Call(op, sel, arg) == [op |-> op, sel |-> sel, arg |-> arg, pre |-> sessionID, bound |-> ""]

\* an operation of the client returns r; resps are the answers to the requests it sent
Return(c, r, resps) ==
    /\ sessionID' = r.sid
    /\ pc' = "idle"
    /\ call' = c
    /\ ret' = [err |-> r.err, val |-> r.val,
               resps |-> IF r.reqs = <<>> THEN <<>> ELSE resps, lookups |-> 0]
    /\ sent' = r.reqs
    /\ lastPoll' = "none"
    /\ now' = 0
    /\ tick' = FALSE

CallCreateSession ==
    /\ pc = "idle"
    /\ \E resp \in SessionResponses :
        Return(Call("CreateSession", <<>>, ""), CreateSession(sessionID, resp), <<resp>>)
    /\ UNCHANGED <<locatorVars, imageVars, funVars, hostVars>>

CallDeleteSession ==
    /\ pc = "idle"
    /\ \E resp \in PlainResponses :
        Return(Call("DeleteSession", <<>>, ""), DeleteSession(sessionID, resp), <<resp>>)
    /\ UNCHANGED <<locatorVars, imageVars, funVars, hostVars>>

CallGetAllCookies ==
    /\ pc = "idle"
    /\ \E resp \in PlainResponses :
        Return(Call("GetAllCookies", <<>>, ""), GetAllCookies(sessionID, resp), <<resp>>)
    /\ UNCHANGED <<locatorVars, imageVars, funVars, hostVars>>

CallSetWindowSize ==
    /\ pc = "idle"
    /\ \E resp \in PlainResponses :
        Return(Call("SetWindowSize", <<>>, ""), SetWindowSize(sessionID, resp), <<resp>>)
    /\ UNCHANGED <<locatorVars, imageVars, funVars, hostVars>>

CallGetCurrentURL ==
    /\ pc = "idle"
    /\ \E resp \in PlainResponses :
        Return(Call("GetCurrentURL", <<>>, ""), GetCurrentURL(sessionID, resp), <<resp>>)
    /\ UNCHANGED <<locatorVars, imageVars, funVars, hostVars>>

CallGetTitle ==
    /\ pc = "idle"
    /\ \E resp \in PlainResponses :
        Return(Call("GetTitle", <<>>, ""), GetTitle(sessionID, resp), <<resp>>)
    /\ UNCHANGED <<locatorVars, imageVars, funVars, hostVars>>

CallExecuteScript ==
    /\ pc = "idle"
    /\ \E resp \in ScriptResponses :
        Return(Call("ExecuteScript", <<>>, ""), ExecuteScript(sessionID, resp), <<resp>>)
    /\ UNCHANGED <<locatorVars, imageVars, funVars, hostVars>>

LookupResponses(selector, native) ==
    IF ParseSelector(selector).IsNative THEN native ELSE ScriptResponses \cup native

CallFindElement ==
    /\ pc = "idle"
    /\ \E selector \in Selectors : \E resp \in LookupResponses(selector, ElementResponses) :
        Return(Call("FindElement", selector, ""), FindElement(sessionID, selector, resp),
               <<resp>>)
    /\ UNCHANGED <<locatorVars, imageVars, funVars, hostVars>>

CallFindAllElements ==
    /\ pc = "idle"
    /\ \E selector \in Selectors : \E resp \in LookupResponses(selector, ElementsResponses) :
        Return(Call("FindAllElements", selector, ""),
               FindAllElements(sessionID, selector, resp), <<resp>>)
    /\ UNCHANGED <<locatorVars, imageVars, funVars, hostVars>>

CallClickElement ==
    /\ pc = "idle"
    /\ \E elementID \in ElementIDs : \E resp \in ScriptResponses :
        Return(Call("ClickElement", <<>>, elementID), ClickElement(sessionID, resp), <<resp>>)
    /\ UNCHANGED <<locatorVars, imageVars, funVars, hostVars>>

CallSendKeys ==
    /\ pc = "idle"
    /\ \E elementID \in ElementIDs : \E resp \in PlainResponses :
        Return(Call("SendKeys", <<>>, elementID), SendKeys(sessionID, elementID, resp),
               <<resp>>)
    /\ UNCHANGED <<locatorVars, imageVars, funVars, hostVars>>

CallTakeScreenshot ==
    /\ pc = "idle"
    /\ \E vpResp \in ViewportResponses : \E shotResp \in ShotResponses :
        LET r == TakeScreenshot(sessionID, vpResp, shotResp) IN
        Return(Call("TakeScreenshot", <<>>, ""), r, <<vpResp, shotResp>>)
    /\ UNCHANGED <<locatorVars, imageVars, funVars, hostVars>>

(***************************************************************************)
(* webdriver.go: Navigate and pollForCondition                             *)
(***************************************************************************)
\* a wait begins: the clock of the wait starts, the ticker holds no tick
BeginWait(c, where, reqs, resps) ==
    /\ pc' = where
    /\ call' = c
    /\ ret' = [NoRet EXCEPT !.resps = resps]
    /\ sent' = reqs
    /\ lastPoll' = "none"
    /\ now' = 0
    /\ tick' = FALSE
    /\ UNCHANGED sessionID

\* a wait ends with error e at the current time of the wait
\* Locator.WaitFor wraps the error of the wait it started
WaitError(e) ==
    IF call.op = "Locator.WaitFor" /\ e # Nil
    THEN Wrap("waitFor failed for selector", e)
    ELSE e

\* Page.Goto re-injects the script after a navigation that succeeded and goes on
\* whatever the injection returns; failed names the commands that failed
InjectAnswers(e) ==
    IF call.op = "Page.Goto" /\ e = Nil THEN {Http(200, VNull), Transport} ELSE {Transport}

\* a result that would reject Page.Goto when the injection fails
WaitResultStrict(e, inject) ==
    IF call.op = "Page.Goto"
    THEN [err |-> IF e # Nil THEN e ELSE inject.err, val |-> NoVal, resps |-> ret.resps,
          lookups |-> 0,
          failed |-> IF e # Nil THEN {"Navigate"}
                     ELSE IF inject.err # Nil THEN {"injectScript"} ELSE {}]
    ELSE [err |-> WaitError(e), val |-> NoVal, resps |-> ret.resps, lookups |-> 0]

WaitResult(e, inject) ==
    IF call.op = "Page.Goto"
    THEN [err |-> e, val |-> NoVal, resps |-> ret.resps, lookups |-> 0,
          failed |-> IF e # Nil THEN {"Navigate"}
                     ELSE IF inject.err # Nil THEN {"injectScript"} ELSE {}]
    ELSE [err |-> WaitError(e), val |-> NoVal, resps |-> ret.resps, lookups |-> 0]

EndWait(e, outcome, t) ==
    /\ pc' = "idle"
    /\ \E answer \in InjectAnswers(e) :
        LET inject == ExecuteScript(sessionID, answer) IN
        /\ ret' = WaitResult(e, inject)
        /\ sent' = IF call.op = "Page.Goto" /\ e = Nil THEN sent \o inject.reqs ELSE sent
    /\ lastPoll' = outcome
    /\ now' = t
    /\ tick' = FALSE
    /\ UNCHANGED <<sessionID, call>>

\* a Navigate that would check waitUntil before it sends the command
CallNavigateValidating ==
    /\ pc = "idle"
    /\ \E options \in WaitUntils : \E resp \in NavigateResponses :
        LET r == NavigateCommand(sessionID, resp)
            c == Call("Navigate", <<>>, options)
            w == EffectiveWaitUntil(options)
        IN  IF sessionID # "" /\ w \notin {"load", "domcontentloaded", "networkidle"}
            THEN Return(c, R(Err("invalid waitUntil option"), NoVal, <<>>, sessionID), <<>>)
            ELSE IF r.err # Nil THEN Return(c, r, <<resp>>)
            ELSE IF w = "load" THEN Return(c, r, <<resp>>)
            ELSE BeginWait(c, "poll", r.reqs, <<resp>>)
    /\ UNCHANGED <<locatorVars, imageVars, funVars, hostVars>>

CallNavigate ==
    /\ pc = "idle"
    /\ \E options \in WaitUntils : \E resp \in NavigateResponses :
        LET r == NavigateCommand(sessionID, resp)
            c == Call("Navigate", <<>>, options)
            w == EffectiveWaitUntil(options)
        IN  IF r.err # Nil THEN Return(c, r, <<resp>>)
            ELSE IF w = "load" THEN Return(c, r, <<resp>>)
            ELSE IF w = "domcontentloaded" THEN BeginWait(c, "poll", r.reqs, <<resp>>)
            ELSE IF w = "networkidle" THEN BeginWait(c, "poll", r.reqs, <<resp>>)
            ELSE Return(c, R(Err("invalid waitUntil option"), NoVal, r.reqs, r.sid), <<resp>>)
    /\ UNCHANGED <<locatorVars, imageVars, funVars, hostVars>>

\* how long the execution of a condition script takes: no time when no request is sent
ExecDurations(r) == IF r.reqs = <<>> THEN {0} ELSE 0..MaxExecDur

\* a network-idle wait that would return as soon as its poll is satisfied
SettleNever(c) == 0

\* the 500ms network-idle settle delay follows a satisfied poll
SettleOf(c) == IF EffectiveWaitUntil(c.arg) = "networkidle" THEN SettleDelay ELSE 0

pollForCondition(r, d) ==
    IF r.err # Nil
    THEN EndWait(Wrap("failed to execute condition script", r.err), "error", now + d)
    ELSE IF Satisfied(r) THEN EndWait(Nil, PollOutcome(r), now + d + SettleOf(call))
    ELSE /\ now' = now + d + PollInterval
         /\ lastPoll' = PollOutcome(r)
         /\ UNCHANGED <<sessionID, pc, call, ret, sent, tick>>

\* one turn of pollForCondition's loop: time.Now().Before(deadline) held
PollStep ==
    /\ pc = "poll"
    /\ now < WaitTimeout
    /\ \E resp \in PollResponses :
        LET r == ExecuteScript(sessionID, resp) IN
        \E d \in ExecDurations(r) : pollForCondition(r, d)
    /\ UNCHANGED <<locatorVars, imageVars, funVars, hostVars>>

\* the loop condition fails: the deadline has passed
PollTimeout ==
    /\ pc = "poll"
    /\ now >= WaitTimeout
    /\ EndWait(Err("timeout waiting for condition after 30s"), lastPoll, now)
    /\ UNCHANGED <<locatorVars, imageVars, funVars, hostVars>>

(***************************************************************************)
(* webdriver.go: WaitForSelector                                           *)
(***************************************************************************)
WaitForSelectorStart(c) ==
    IF sessionID = ""
    THEN Return(c, R(Err(NoActiveSession), NoVal, <<>>, sessionID), <<>>)
    ELSE BeginWait(c, "select", <<>>, <<>>)

CallWaitForSelector ==
    /\ pc = "idle"
    /\ \E selector \in Selectors : \E state \in WaitStates :
        WaitForSelectorStart(Call("WaitForSelector", selector, state))
    /\ UNCHANGED <<locatorVars, imageVars, funVars, hostVars>>

\* select blocks: neither channel is ready, until the ticker fires
SelectBlocks ==
    /\ pc = "select"
    /\ ~tick
    /\ now < WaitTimeout
    /\ now' = now + PollInterval
    /\ tick' = TRUE
    /\ UNCHANGED <<sessionID, pc, call, ret, sent, lastPoll>>
    /\ UNCHANGED <<locatorVars, imageVars, funVars, hostVars>>

\* a tick that would end the wait with the error of a failed script execution
WaitForSelectorAbort(r, d) ==
    IF r.err # Nil
    THEN EndWait(Wrap("failed to execute condition script", r.err), PollOutcome(r), now + d)
    ELSE IF Satisfied(r) THEN EndWait(Nil, PollOutcome(r), now + d)
    ELSE /\ now' = now + d
         /\ tick' = (d >= PollInterval)
         /\ lastPoll' = PollOutcome(r)
         /\ UNCHANGED <<sessionID, pc, call, ret, sent>>

\* case <-ticker.C: the condition script runs for d; ticks that fall into the
\* execution leave one tick in the channel
WaitForSelectorTick(r, d) ==
    IF Satisfied(r) THEN EndWait(Nil, PollOutcome(r), now + d)
    ELSE /\ now' = now + d
         /\ tick' = (d >= PollInterval)
         /\ lastPoll' = PollOutcome(r)
         /\ UNCHANGED <<sessionID, pc, call, ret, sent>>

SelectTick ==
    /\ pc = "select"
    /\ tick
    /\ now < WaitTimeout + MaxOverrun
    /\ \E resp \in PollResponses :
        LET r == ExecuteScript(sessionID, resp) IN
        \E d \in ExecDurations(r) : WaitForSelectorTick(r, d)
    /\ UNCHANGED <<locatorVars, imageVars, funVars, hostVars>>

\* case <-ctxWithTimeout.Done()
SelectDone ==
    /\ pc = "select"
    /\ now >= WaitTimeout
    /\ EndWait(ErrTimeout(call.sel, call.arg), lastPoll, now)
    /\ UNCHANGED <<locatorVars, imageVars, funVars, hostVars>>

ClientNext ==
    \/ CallCreateSession
    \/ CallDeleteSession
    \/ CallGetAllCookies
    \/ CallSetWindowSize
    \/ CallGetCurrentURL
    \/ CallGetTitle
    \/ CallExecuteScript
    \/ CallFindElement
    \/ CallFindAllElements
    \/ CallClickElement
    \/ CallSendKeys
    \/ CallTakeScreenshot
    \/ CallNavigate
    \/ PollStep
    \/ PollTimeout
    \/ CallWaitForSelector
    \/ SelectBlocks
    \/ SelectTick
    \/ SelectDone

Next == ClientNext

Spec == Init /\ [][Next]_vars

(***************************************************************************)
(* WaitForSelector under fair scheduling: time passes, a condition script  *)
(* that was started returns, and a select whose deadline channel is ready  *)
(* does not pick the ticker for ever.                                      *)
(***************************************************************************)
WaitNext ==
    \/ CallCreateSession
    \/ CallWaitForSelector
    \/ SelectBlocks
    \/ SelectTick
    \/ SelectDone

SpecWait ==
    /\ Init
    /\ [][WaitNext]_vars
    /\ WF_vars(SelectBlocks)
    /\ WF_vars(SelectTick)
    /\ WF_vars(SelectDone)

(***************************************************************************)
(* browser.go: Browser.NewPage, Page.Locator; locator.go: the Locator.     *)
(* A page always carries the browser's client, so the nil-client guards of *)
(* the methods never fire.  ret.lookups counts the find-element and        *)
(* find-elements lookups (native or scripted) a method sent to the         *)
(* endpoint.                                                               *)
(***************************************************************************)
PageSessionResponses == {Http(200, VSession("s1")), Http(200, VNull), Http(500, VMalformed)}
PageSetupResponses == {Http(200, VNull), Transport}
LocatorLookupResponses ==
    {NoSuchElement, Transport, Http(200, VNull), Http(200, VRef("e1", Absent))}
LocatorListResponses ==
    {Transport, Http(200, VList(<<>>)), Http(200, VList(<<VRef("e1", Absent)>>)),
     Http(200, VList(<<VRef("e1", Absent), VRef(Absent, "e2")>>))}
LocatorScriptResponses ==
    {Transport, Http(200, VNull), Http(200, VStr("x")), Http(200, VClick(FALSE))}

\* what a Locator method returns: the result, the answers and the lookups sent
LocatorReturn(c, r, resps, lookups) ==
    /\ sessionID' = r.sid
    /\ pc' = "idle"
    /\ call' = c
    /\ ret' = [err |-> r.err, val |-> r.val, resps |-> resps, lookups |-> lookups]
    /\ sent' = r.reqs
    /\ lastPoll' = "none"
    /\ now' = 0
    /\ tick' = FALSE

NewPage ==
    /\ pc = "idle"
    /\ \E r1 \in PageSessionResponses : \E r2, r3 \in PageSetupResponses :
        LET session == CreateSession(sessionID, r1)
            size == SetWindowSize(session.sid, r2)
            inject == ExecuteScript(session.sid, r3)
            c == Call("Browser.NewPage", <<>>, "")
        IN  IF session.err # Nil
            THEN /\ LocatorReturn(c, R(Wrap("failed to create session", session.err), NoVal,
                                       session.reqs, session.sid), <<r1>>, 0)
                 /\ UNCHANGED hasPage
            ELSE /\ LocatorReturn(c, R(Nil, NoVal, session.reqs \o size.reqs \o inject.reqs,
                                       session.sid), <<r1, r2, r3>>, 0)
                 /\ hasPage' = TRUE
    /\ UNCHANGED <<loc, found, imageVars, funVars, hostVars>>

\* Page.Locator builds an unbound locator and sends nothing
PageLocator ==
    /\ pc = "idle"
    /\ hasPage
    /\ \E selector \in Selectors : loc' = [selector |-> selector, elementID |-> ""]
    /\ UNCHANGED <<sessionID, pc, call, ret, sent, waitVars, hasPage, found, imageVars, funVars,
                   hostVars>>

\* the script takes one of the locators Locator.All returned
PickLocator ==
    /\ pc = "idle"
    /\ \E i \in 1..Len(found) : loc' = found[i]
    /\ UNCHANGED <<sessionID, pc, call, ret, sent, waitVars, hasPage, found, imageVars, funVars,
                   hostVars>>

LocatorCall(op) ==
    [op |-> op, sel |-> loc.selector, arg |-> "", pre |-> sessionID, bound |-> loc.elementID]

Sent(r) == IF r.reqs = <<>> THEN 0 ELSE 1

\* a resolution that would reuse an element an earlier Locator.All resolved
ResolveElementReuse(l, sid, resp) ==
    IF l.elementID # "" THEN R(Nil, l.elementID, <<>>, sid)
    ELSE IF found # <<>> THEN R(Nil, found[1].elementID, <<>>, sid)
    ELSE LET r == FindElement(sid, l.selector, resp) IN
         IF r.err # Nil
         THEN R(Wrap("failed to find element with selector", r.err), "", r.reqs, sid)
         ELSE r

\* the element a method acts on: the bound one, or the one looked up now
ResolveElement(l, sid, resp) ==
    IF l.elementID # "" THEN R(Nil, l.elementID, <<>>, sid)
    ELSE LET r == FindElement(sid, l.selector, resp) IN
         IF r.err # Nil
         THEN R(Wrap("failed to find element with selector", r.err), "", r.reqs, sid)
         ELSE r

\* Locator.Click, TextContent and Type: the result and the lookups sent
LocatorResult(r, lookups) == [r |-> r, lookups |-> lookups]

LocatorClick(l, sid, r1, r2) ==
    LET elem == ResolveElement(l, sid, r1) IN
    IF elem.err # Nil THEN LocatorResult(R(elem.err, NoVal, elem.reqs, sid), Sent(elem))
    ELSE LET r == ClickElement(sid, r2) IN
         LocatorResult(R(IF r.err # Nil THEN Wrap("failed to click element", r.err) ELSE Nil,
                         NoVal, elem.reqs \o r.reqs, sid), Sent(elem))

LocatorTextContent(l, sid, r1, r2) ==
    LET elem == ResolveElement(l, sid, r1) IN
    IF elem.err # Nil THEN LocatorResult(R(elem.err, NoVal, elem.reqs, sid), Sent(elem))
    ELSE LET r == ExecuteScript(sid, r2) IN
         LocatorResult(IF r.err # Nil
                       THEN R(Wrap("failed to get text content", r.err), NoVal,
                              elem.reqs \o r.reqs, sid)
                       ELSE R(Nil, r.val, elem.reqs \o r.reqs, sid), Sent(elem))

LocatorType(l, sid, r1, r2) ==
    LET elem == ResolveElement(l, sid, r1) IN
    IF elem.err # Nil THEN LocatorResult(R(elem.err, NoVal, elem.reqs, sid), Sent(elem))
    ELSE LET r == SendKeys(sid, elem.val, r2) IN
         LocatorResult(R(IF r.err # Nil THEN Wrap("failed to type text", r.err) ELSE Nil,
                         NoVal, elem.reqs \o r.reqs, sid), Sent(elem))

\* Locator.Count and Locator.All look the selector up, whatever the locator holds
LocatorCount(l, sid, resp) ==
    LET r == FindElements(sid, l.selector, resp) IN
    LocatorResult(IF r.err # Nil
                  THEN R(Wrap("failed to find elements with selector", r.err), NoVal, r.reqs, sid)
                  ELSE r, Sent(r))

LocatorAll(l, sid, resp) ==
    LET r == FindAllElements(sid, l.selector, resp) IN
    LocatorResult(IF r.err # Nil
                  THEN R(Wrap("failed to find elements with selector", r.err), <<>>, r.reqs, sid)
                  ELSE R(Nil, [i \in 1..Len(r.val) |->
                                 [selector |-> l.selector, elementID |-> r.val[i]]],
                         r.reqs, sid), Sent(r))

\* the answer to the lookup of an unbound locator; a bound one sends none
LookupAnswers(l) == IF l.elementID # "" THEN {Transport} ELSE LocatorLookupResponses

Answers(res, r1, r2) ==
    IF Len(res.r.reqs) = 0 THEN <<>>
    ELSE IF Len(res.r.reqs) = 2 THEN <<r1, r2>>
    ELSE IF res.lookups = 1 THEN <<r1>> ELSE <<r2>>

CallLocatorClick ==
    /\ pc = "idle" /\ hasPage /\ loc # NoLocator
    /\ \E r1 \in LookupAnswers(loc) : \E r2 \in LocatorScriptResponses :
        LET res == LocatorClick(loc, sessionID, r1, r2) IN
        LocatorReturn(LocatorCall("Locator.Click"), res.r, Answers(res, r1, r2), res.lookups)
    /\ UNCHANGED <<locatorVars, imageVars, funVars, hostVars>>

CallLocatorTextContent ==
    /\ pc = "idle" /\ hasPage /\ loc # NoLocator
    /\ \E r1 \in LookupAnswers(loc) : \E r2 \in LocatorScriptResponses :
        LET res == LocatorTextContent(loc, sessionID, r1, r2) IN
        LocatorReturn(LocatorCall("Locator.TextContent"), res.r, Answers(res, r1, r2),
                      res.lookups)
    /\ UNCHANGED <<locatorVars, imageVars, funVars, hostVars>>

CallLocatorType ==
    /\ pc = "idle" /\ hasPage /\ loc # NoLocator
    /\ \E r1 \in LookupAnswers(loc) : \E r2 \in LocatorScriptResponses :
        LET res == LocatorType(loc, sessionID, r1, r2) IN
        LocatorReturn(LocatorCall("Locator.Type"), res.r, Answers(res, r1, r2), res.lookups)
    /\ UNCHANGED <<locatorVars, imageVars, funVars, hostVars>>

CallLocatorCount ==
    /\ pc = "idle" /\ hasPage /\ loc # NoLocator
    /\ \E resp \in LocatorListResponses :
        LET res == LocatorCount(loc, sessionID, resp) IN
        LocatorReturn(LocatorCall("Locator.Count"), res.r,
                      IF res.lookups = 1 THEN <<resp>> ELSE <<>>, res.lookups)
    /\ UNCHANGED <<locatorVars, imageVars, funVars, hostVars>>

CallLocatorAll ==
    /\ pc = "idle" /\ hasPage /\ loc # NoLocator
    /\ \E resp \in LocatorListResponses :
        LET res == LocatorAll(loc, sessionID, resp) IN
        /\ LocatorReturn(LocatorCall("Locator.All"), res.r,
                         IF res.lookups = 1 THEN <<resp>> ELSE <<>>, res.lookups)
        /\ found' = res.r.val
    /\ UNCHANGED <<hasPage, loc, imageVars, funVars, hostVars>>

\* Locator.WaitFor waits for the selector, in the state asked for or "visible"
CallLocatorWaitFor ==
    /\ pc = "idle" /\ hasPage /\ loc # NoLocator
    /\ \E state \in {NilOptions, "detached"} :
        WaitForSelectorStart([LocatorCall("Locator.WaitFor") EXCEPT
                                 !.arg = IF state = NilOptions THEN "visible" ELSE state])
    /\ UNCHANGED <<locatorVars, imageVars, funVars, hostVars>>

LocatorNext ==
    \/ NewPage
    \/ PageLocator
    \/ PickLocator
    \/ CallLocatorClick
    \/ CallLocatorTextContent
    \/ CallLocatorType
    \/ CallLocatorCount
    \/ CallLocatorAll
    \/ CallLocatorWaitFor
    \/ SelectBlocks
    \/ SelectTick
    \/ SelectDone

SpecLocator == Init /\ [][LocatorNext]_vars

(***************************************************************************)
(* browser.go: the methods of a Page, and BrowserContext.Cookies.  Each    *)
(* returns its error, its value, the requests it sent and the client       *)
(* commands that failed in it.                                             *)
(***************************************************************************)
\* a path is "" or names a file whose os.WriteFile succeeds or fails
FilePaths == {"", "diff.png", "/missing/diff.png"}
WriteFails(filePath) == filePath = "/missing/diff.png"

PageResult(err, val, reqs, failed) ==
    [err |-> err, val |-> val, reqs |-> reqs, failed |-> failed]

Failure(command, r) == IF r.err # Nil THEN {command} ELSE {}

WrapIf(msg, e) == IF e # Nil THEN Wrap(msg, e) ELSE Nil

PageURL(sid, resp) ==
    LET r == GetCurrentURL(sid, resp) IN
    PageResult(Nil, IF r.err # Nil THEN "" ELSE r.val, r.reqs, Failure("GetCurrentURL", r))

PageTitle(sid, resp) ==
    LET r == GetTitle(sid, resp) IN
    PageResult(WrapIf("failed to get title", r.err), r.val, r.reqs, Failure("GetTitle", r))

PageEvaluate(sid, resp) ==
    LET r == ExecuteScript(sid, resp) IN
    PageResult(WrapIf("failed to execute script", r.err), r.val, r.reqs,
               Failure("ExecuteScript", r))

PageClick(sid, selector, r1, r2) ==
    LET elem == FindElement(sid, selector, r1) IN
    IF elem.err # Nil
    THEN PageResult(Wrap("failed to find element", elem.err), NoVal, elem.reqs, {"FindElement"})
    ELSE LET r == ClickElement(sid, r2) IN
         PageResult(WrapIf("failed to click element", r.err), NoVal, elem.reqs \o r.reqs,
                    Failure("ClickElement", r))

PageFill(sid, selector, r1, r2) ==
    LET elem == FindElement(sid, selector, r1) IN
    IF elem.err # Nil
    THEN PageResult(Wrap("failed to find element", elem.err), NoVal, elem.reqs, {"FindElement"})
    ELSE LET r == SendKeys(sid, elem.val, r2) IN
         PageResult(WrapIf("failed to send keys", r.err), NoVal, elem.reqs \o r.reqs,
                    Failure("SendKeys", r))

\* options.path is absent ("") or names a file whose write succeeds or fails
PageScreenshot(sid, path, vpResp, shotResp) ==
    LET r == TakeScreenshot(sid, vpResp, shotResp) IN
    IF r.err # Nil
    THEN PageResult(Wrap("failed to take screenshot", r.err), NoVal, r.reqs, {"TakeScreenshot"})
    ELSE IF path # "" /\ WriteFails(path)
    THEN PageResult(Err("failed to write screenshot to file"), NoVal, r.reqs, {})
    ELSE PageResult(Nil, r.val, r.reqs, {})

ContextCookies(sid, resp) ==
    LET r == GetAllCookies(sid, resp) IN
    PageResult(WrapIf("failed to get cookies", r.err), r.val, r.reqs, Failure("GetAllCookies", r))

PageAnswers == {Transport, Http(500, VMalformed), Http(200, VNull), Http(200, VStr("x"))}
PageLookupAnswers == {NoSuchElement, Http(200, VRef("e1", Absent))}
PageShotAnswers == {Transport, Http(200, VStr("iVBORw0K"))}
PageViewportAnswers == {Transport, Http(200, VViewport(Num(1), Num(1), Num(1)))}

PageReturn(c, o) ==
    /\ pc' = "idle"
    /\ call' = c
    /\ ret' = [err |-> o.err, val |-> o.val, resps |-> <<>>, lookups |-> 0,
               failed |-> o.failed]
    /\ sent' = o.reqs
    /\ lastPoll' = "none"
    /\ now' = 0
    /\ tick' = FALSE
    /\ UNCHANGED <<sessionID, locatorVars, imageVars, funVars, hostVars>>

CallPageGoto ==
    /\ pc = "idle"
    /\ hasPage
    /\ \E options \in WaitUntils : \E resp \in NavigateResponses : \E answer \in PageSetupResponses :
        LET r == NavigateCommand(sessionID, resp)
            inject == ExecuteScript(sessionID, answer)
            c == Call("Page.Goto", <<>>, options)
            w == EffectiveWaitUntil(options)
        IN  IF r.err # Nil THEN PageReturn(c, PageResult(r.err, NoVal, r.reqs, {"Navigate"}))
            ELSE IF w = "load"
            THEN PageReturn(c, PageResult(Nil, NoVal, r.reqs \o inject.reqs,
                                          Failure("injectScript", inject)))
            ELSE IF w \in {"domcontentloaded", "networkidle"}
            THEN /\ BeginWait(c, "poll", r.reqs, <<resp>>)
                 /\ UNCHANGED <<locatorVars, imageVars, funVars, hostVars>>
            ELSE PageReturn(c, PageResult(Err("invalid waitUntil option"), NoVal, r.reqs,
                                          {"Navigate"}))

CallPageURL ==
    /\ pc = "idle"
    /\ hasPage
    /\ \E resp \in PageAnswers :
        PageReturn(Call("Page.URL", <<>>, ""), PageURL(sessionID, resp))

CallPageTitle ==
    /\ pc = "idle"
    /\ hasPage
    /\ \E resp \in PageAnswers :
        PageReturn(Call("Page.Title", <<>>, ""), PageTitle(sessionID, resp))

CallPageEvaluate ==
    /\ pc = "idle"
    /\ hasPage
    /\ \E resp \in PageAnswers :
        PageReturn(Call("Page.Evaluate", <<>>, ""), PageEvaluate(sessionID, resp))

CallPageClick ==
    /\ pc = "idle"
    /\ hasPage
    /\ \E selector \in Selectors : \E r1 \in PageLookupAnswers : \E r2 \in LocatorScriptResponses :
        PageReturn(Call("Page.Click", selector, ""), PageClick(sessionID, selector, r1, r2))

CallPageFill ==
    /\ pc = "idle"
    /\ hasPage
    /\ \E selector \in Selectors : \E r1 \in PageLookupAnswers : \E r2 \in PageAnswers :
        PageReturn(Call("Page.Fill", selector, ""), PageFill(sessionID, selector, r1, r2))

CallPageScreenshot ==
    /\ pc = "idle"
    /\ hasPage
    /\ \E path \in FilePaths : \E r1 \in PageViewportAnswers : \E r2 \in PageShotAnswers :
        PageReturn(Call("Page.Screenshot", <<>>, path),
                   PageScreenshot(sessionID, path, r1, r2))

CallContextCookies ==
    /\ pc = "idle"
    /\ \E resp \in PageAnswers :
        PageReturn(Call("Context.Cookies", <<>>, ""), ContextCookies(sessionID, resp))

PageNext ==
    \/ NewPage
    \/ CallPageGoto
    \/ PollStep
    \/ PollTimeout
    \/ CallPageURL
    \/ CallPageTitle
    \/ CallPageEvaluate
    \/ CallPageClick
    \/ CallPageFill
    \/ CallPageScreenshot
    \/ CallContextCookies

SpecPage == Init /\ [][PageNext]_vars

(***************************************************************************)
(* injection_script.js (Go source): CompareImages, PixelDifferenceCount,    *)
(* scaleImage, CreateDiffImage.  An image is its width, its height and,     *)
(* for every position, the four channel values the PNG stores (not          *)
(* premultiplied, widened to 16 bits); the pixel loops read them through    *)
(* At(x, y).RGBA(), which premultiplies the colour channels by alpha.       *)
(***************************************************************************)
ChannelMax == 65535

Black == <<0, 0, 0, ChannelMax>>
White == <<ChannelMax, ChannelMax, ChannelMax, ChannelMax>>
\* 8-bit value 10 in the red channel, and a 16-bit value with the same high byte
Dark == <<2570, 0, 0, ChannelMax>>
Deep == <<2571, 0, 0, ChannelMax>>
Clear == <<0, 0, 0, 0>>
\* white, fully transparent: PNG stores colour channels that are not premultiplied
Ghost == <<ChannelMax, ChannelMax, ChannelMax, 0>>
Palette == <<Black, White, Dark, Deep, Clear, Ghost>>

Positions(w, h) == (0..(w - 1)) \X (0..(h - 1))

Image(w, h, px) == [w |-> w, h |-> h, px |-> px]

\* the decoded images: one colour, one colour with an odd pixel, a ramp
Solid(w, h, c) == Image(w, h, [p \in Positions(w, h) |-> Palette[c]])
Dot(w, h, c) ==
    Image(w, h, [p \in Positions(w, h) |->
                    IF p = <<w - 1, h - 1>> THEN Palette[(c % Len(Palette)) + 1]
                    ELSE Palette[c]])
Ramp(w, h, c) ==
    Image(w, h, [p \in Positions(w, h) |->
                    Palette[((c - 1 + p[1] + 2 * p[2]) % Len(Palette)) + 1]])
Images ==
    UNION { {Solid(w, h, c)} \cup (IF c <= 3 THEN {Dot(w, h, c), Ramp(w, h, c)} ELSE {}) :
            w \in 1..MaxDim, h \in 1..MaxDim, c \in 1..Len(Palette) }

\* the conversion of a uint32 to int32
Int32(u) == IF u.hi >= 32768 THEN (u.hi - 65536) * 65536 + u.lo ELSE u.hi * 65536 + u.lo
MinInt32 == (-32768) * 65536

Thresholds == {U32(0, 0), U32(0, 10), U32(0, 255), U32(0, ChannelMax), U32(32768, 0)}

\* -n wraps for the least int32
abs32(n) == IF n < 0 /\ n # MinInt32 THEN -n ELSE n
abs(n) == IF n < 0 THEN -n ELSE n

\* x * a / 0xffff without leaving 32 bits
MulDiv(x, a) ==
    LET t == x * (a \div 256)
    IN  (t \div ChannelMax) * 256 + ((t % ChannelMax) * 256 + x * (a % 256)) \div ChannelMax

\* At(x, y).RGBA() of a decoded PNG: the colour channels premultiplied by alpha
RGBA(c) == <<MulDiv(c[1], c[4]), MulDiv(c[2], c[4]), MulDiv(c[3], c[4]), c[4]>>

\* a decoded image as the pixel loops read it
Decoded(img) == [img EXCEPT !.px = [p \in Positions(img.w, img.h) |-> RGBA(img.px[p])]]

\* image.RGBA keeps 8 bits per channel: Set drops the low byte, At().RGBA() widens
SetRGBA(c) == [i \in 1..4 |-> (c[i] \div 256) * 257]

\* nearest neighbour; for these sizes int(float64(x) * xRatio) is the integer quotient
scaleImage(src, targetWidth, targetHeight) ==
    Image(targetWidth, targetHeight,
          [p \in Positions(targetWidth, targetHeight) |->
              SetRGBA(src.px[<<(p[1] * src.w) \div targetWidth,
                               (p[2] * src.h) \div targetHeight>>])])

\* the two buffers the per-pixel loop runs over
ScaleToMatch(a, b) ==
    IF a.w # b.w \/ a.h # b.h
    THEN IF a.w > b.w \/ a.h > b.h
         THEN <<scaleImage(a, b.w, b.h), b>>
         ELSE <<a, scaleImage(b, a.w, a.h)>>
    ELSE <<a, b>>

Dims(a) == <<a.w, a.h>>

\* a decoding that would check the first image only
DecodeErrorFirstOnly(a, b) ==
    IF a = NoImage THEN Err("failed to decode first image") ELSE Nil

DecodeError(a, b) ==
    IF a = NoImage THEN Err("failed to decode first image")
    ELSE IF b = NoImage THEN Err("failed to decode second image")
    ELSE Nil

\* the loop runs over the bounds of the first buffer and reads both at each position
LoopPositions(bufs) == Positions(bufs[1].w, bufs[1].h)

RECURSIVE SumOver(_, _)
SumOver(f, S) ==
    IF S = {} THEN 0
    ELSE LET x == CHOOSE y \in S : TRUE IN f[x] + SumOver(f, S \ {x})

\* a comparison that would leave the alpha channel out of the squared error
CompareImagesOpaque(a, b) ==
    IF DecodeError(a, b) # Nil THEN [NoImageResult EXCEPT !.op = "CompareImages",
                                                          !.err = DecodeError(a, b)]
    ELSE LET bufs == ScaleToMatch(Decoded(a), Decoded(b))
             sq == [p \in LoopPositions(bufs) |->
                      LET d == [i \in 1..3 |-> (bufs[1].px[p][i] \div 256)
                                                - (bufs[2].px[p][i] \div 256)]
                      IN  d[1] * d[1] + d[2] * d[2] + d[3] * d[3]]
             totalError == SumOver(sq, LoopPositions(bufs))
             pixelCount == bufs[1].w * bufs[1].h
             den == pixelCount * 4 * 255 * 255
         IN  [NoImageResult EXCEPT !.op = "CompareImages",
                                   !.score = <<den - Min(totalError, den), den>>,
                                   !.buf1 = Dims(bufs[1]), !.buf2 = Dims(bufs[2])]

\* the similarity 1 - min(mse / 255^2, 1) as an exact fraction <<num, den>>
CompareImages(a, b) ==
    IF DecodeError(a, b) # Nil THEN [NoImageResult EXCEPT !.op = "CompareImages",
                                                          !.err = DecodeError(a, b)]
    ELSE LET bufs == ScaleToMatch(Decoded(a), Decoded(b))
             sq == [p \in LoopPositions(bufs) |->
                      LET d == [i \in 1..4 |-> (bufs[1].px[p][i] \div 256)
                                                - (bufs[2].px[p][i] \div 256)]
                      IN  d[1] * d[1] + d[2] * d[2] + d[3] * d[3] + d[4] * d[4]]
             totalError == SumOver(sq, LoopPositions(bufs))
             pixelCount == bufs[1].w * bufs[1].h
             den == pixelCount * 4 * 255 * 255
         IN  [NoImageResult EXCEPT !.op = "CompareImages",
                                   !.score = <<den - Min(totalError, den), den>>,
                                   !.buf1 = Dims(bufs[1]), !.buf2 = Dims(bufs[2])]

PixelDifferenceCount(a, b, threshold) ==
    IF DecodeError(a, b) # Nil THEN [NoImageResult EXCEPT !.op = "PixelDifferenceCount",
                                                          !.threshold = threshold,
                                                          !.err = DecodeError(a, b)]
    ELSE LET bufs == ScaleToMatch(Decoded(a), Decoded(b))
             differs(p) == \E i \in 1..4 :
                 abs32(Int32(U32(0, bufs[1].px[p][i])) - Int32(U32(0, bufs[2].px[p][i])))
                     > Int32(threshold)
         IN  [NoImageResult EXCEPT !.op = "PixelDifferenceCount",
                                   !.threshold = threshold,
                                   !.count = Cardinality({p \in LoopPositions(bufs) : differs(p)}),
                                   !.buf1 = Dims(bufs[1]), !.buf2 = Dims(bufs[2])]

DiffThreshold == 10

\* color.NRGBAModel on an 8-bit premultiplied pixel: png.Encode stores the colour
\* channels of an image that is not opaque divided by alpha
NRGBAModel(c) ==
    IF c[4] = 255 THEN c
    ELSE IF c[4] = 0 THEN <<0, 0, 0, 0>>
    ELSE <<((c[1] * ChannelMax) \div c[4]) \div 256, ((c[2] * ChannelMax) \div c[4]) \div 256,
           ((c[3] * ChannelMax) \div c[4]) \div 256, c[4]>>

\* the PNG of an image.RGBA, as its 8-bit channel values
EncodePNG(img) == [img EXCEPT !.px = [p \in Positions(img.w, img.h) |-> NRGBAModel(img.px[p])]]


CreateDiffImage(a, b, filePath) ==
    IF DecodeError(a, b) # Nil THEN [NoImageResult EXCEPT !.op = "CreateDiffImage",
                                                          !.filePath = filePath,
                                                          !.err = DecodeError(a, b)]
    ELSE LET bufs == ScaleToMatch(Decoded(a), Decoded(b))
             b8(p, k, i) == bufs[k].px[p][i] \div 256
             different(p) == \E i \in 1..4 : abs(b8(p, 1, i) - b8(p, 2, i)) > DiffThreshold
             gray(p) == (b8(p, 1, 1) + b8(p, 1, 2) + b8(p, 1, 3)) \div 3
             diffImg == Image(bufs[1].w, bufs[1].h,
                              [p \in LoopPositions(bufs) |->
                                  IF different(p) THEN <<255, 0, 0, 255>>
                                  ELSE <<gray(p), gray(p), gray(p), b8(p, 1, 4)>>])
         IN  IF filePath # "" /\ WriteFails(filePath)
             THEN [NoImageResult EXCEPT !.op = "CreateDiffImage",
                                        !.filePath = filePath,
                                        !.err = Err("failed to write diff image"),
                                        !.buf1 = Dims(bufs[1]), !.buf2 = Dims(bufs[2])]
             ELSE [NoImageResult EXCEPT !.op = "CreateDiffImage",
                                        !.filePath = filePath,
                                        !.diff = EncodePNG(diffImg),
                                        !.written = (filePath # ""),
                                        !.buf1 = Dims(bufs[1]), !.buf2 = Dims(bufs[2])]

\* the two PNG byte arrays an image function is handed
InitImage ==
    /\ InitClient
    /\ img1 \in Images \cup {NoImage}
    /\ img2 \in Images \cup {NoImage}
    /\ imgRes = NoImageResult
    /\ NoFun
    /\ NoHost

ImageUnchanged ==
    UNCHANGED <<sessionID, pc, call, ret, sent, waitVars, locatorVars, img1, img2, funVars,
                hostVars>>

CallCompareImages ==
    /\ imgRes' = CompareImages(img1, img2)
    /\ ImageUnchanged

CallPixelDifferenceCount ==
    /\ \E threshold \in Thresholds : imgRes' = PixelDifferenceCount(img1, img2, threshold)
    /\ ImageUnchanged

CallCreateDiffImage ==
    /\ \E filePath \in FilePaths : imgRes' = CreateDiffImage(img1, img2, filePath)
    /\ ImageUnchanged

(***************************************************************************)
(* webdriver.go: cropImage on the pixels.  decodePNG copies the decoded    *)
(* image into an image.RGBA, which keeps 8-bit alpha-premultiplied         *)
(* channels; cropImageRect copies from one image.RGBA into another;        *)
(* encodePNG writes an image.RGBA that is not opaque through NRGBAModel.   *)
(***************************************************************************)
\* rgba.Set(x, y, img.At(x, y)): the 8-bit premultiplied channels image.RGBA keeps
decodePNG(img) ==
    [img EXCEPT !.px = [p \in Positions(img.w, img.h) |->
                           [i \in 1..4 |-> RGBA(img.px[p])[i] \div 256]]]

\* cropped.Set(dx, dy, img.At(x + dx, y + dy))
cropImageRect(img, x, y, width, height) ==
    Image(width, height,
          [p \in Positions(width, height) |-> img.px[<<x + p[1], y + p[2]>>]])

\* the stored values of an encoded image, widened as the images of the model are
encodePNG(img) ==
    [img EXCEPT !.px = [p \in Positions(img.w, img.h) |->
                           [i \in 1..4 |-> NRGBAModel(img.px[p])[i] * 257]]]

cropImagePixels(img, width, height) ==
    IF img = NoImage
    THEN [NoImageResult EXCEPT !.op = "cropImage", !.crop = <<width, height>>,
                               !.err = Err("failed to decode PNG")]
    ELSE IF width >= img.w /\ height >= img.h
    THEN [NoImageResult EXCEPT !.op = "cropImage", !.crop = <<width, height>>,
                               !.diff = img, !.original = TRUE]
    ELSE LET croppedWidth == Min(width, img.w)
             croppedHeight == Min(height, img.h)
         IN  IF croppedWidth <= 0 \/ croppedHeight <= 0
             THEN [NoImageResult EXCEPT !.op = "cropImage", !.crop = <<width, height>>,
                                        !.err = Err("png: invalid format: invalid image size")]
             ELSE [NoImageResult EXCEPT
                      !.op = "cropImage", !.crop = <<width, height>>,
                      !.diff = encodePNG(cropImageRect(decodePNG(img), 0, 0,
                                                       croppedWidth, croppedHeight))]

\* the widths and heights asked for
CropSizes == 0..MaxDim

CallCropImage ==
    /\ \E width, height \in CropSizes : imgRes' = cropImagePixels(img1, width, height)
    /\ ImageUnchanged

ImageNext ==
    \/ CallCompareImages
    \/ CallPixelDifferenceCount
    \/ CallCreateDiffImage
    \/ CallCropImage

SpecImage == InitImage /\ [][ImageNext]_vars

(***************************************************************************)
(* webdriver.go: generateWaitScript, and what the script it builds returns *)
(* when the page runs it.  The element the selector resolves to is absent, *)
(* or present with a layout box and a computed style.                      *)
(***************************************************************************)
Element(present, w, h, display, visibility, opacity) ==
    [present |-> present, offsetWidth |-> w, offsetHeight |-> h, display |-> display,
     visibility |-> visibility, opacity |-> opacity]

NoElement == Element(FALSE, 0, 0, "none", "hidden", "0")

Elements ==
    {NoElement} \cup
    { Element(TRUE, w, h, d, v, o) :
        w \in {0, 10}, h \in {0, 10}, d \in {"block", "none"}, v \in {"visible", "hidden"},
        o \in {"1", "0"} }

\* the expression the script binds to "var element": querySelector for a CSS
\* selector, document.evaluate for XPath, and for every other strategy the
\* statements of generateSelectorScript (they end in "return ...;") in parentheses
\* what a lookup looks for: a strategy and a value
Lookup(strategy, value) == [Strategy |-> strategy, Value |-> value]

\* the lookup the script of generateSelectorScript performs: its own for the five
\* custom strategies, document.querySelector(value) for every other strategy
generateSelectorScript(strategy, value) ==
    IF strategy \in {StrategyText, StrategyVisibleText, StrategyDataTestID, StrategyAriaLabel,
                     StrategyRole}
    THEN Lookup(strategy, value)
    ELSE Lookup(StrategyCSSSelector, value)

\* the lookup embedded in the condition script of WaitForSelector
WaitLookup(selector) ==
    LET parsed == ParseSelector(selector) IN
    IF parsed.IsNative /\ parsed.Strategy \in {StrategyCSSSelector, StrategyXPath}
    THEN Lookup(parsed.Strategy, parsed.Value)
    ELSE generateSelectorScript(parsed.Strategy, parsed.Value)

\* the lookup FindElement performs: the endpoint's for a native strategy, the
\* selector script otherwise
FindLookup(selector) ==
    LET parsed == ParseSelector(selector) IN
    IF parsed.IsNative THEN Lookup(parsed.Strategy, parsed.Value)
    ELSE generateSelectorScript(parsed.Strategy, parsed.Value)

findElementScript(selector) ==
    LET parsed == ParseSelector(selector) IN
    IF parsed.IsNative /\ parsed.Strategy = StrategyCSSSelector THEN "querySelector"
    ELSE IF parsed.IsNative /\ parsed.Strategy = StrategyXPath THEN "evaluate"
    ELSE "(statements)"

\* the switch on state: the four states, and the default branch for the rest
generateWaitScript(selector, state) ==
    [find |-> findElementScript(selector),
     check |-> IF state \in {"attached", "detached", "visible", "hidden"} THEN state
               ELSE "default"]

Bool(b) == IF b THEN "true" ELSE "false"

\* the body of the script, run on the element
RunCheck(check, e) ==
    LET noBox == e.offsetWidth = 0 \/ e.offsetHeight = 0 IN
    CASE check = "attached" -> Bool(e.present)
      [] check = "detached" -> Bool(~e.present)
      [] check = "visible" ->
            IF ~e.present \/ noBox THEN "false"
            ELSE Bool(e.display # "none" /\ e.visibility # "hidden" /\ e.opacity # "0")
      [] check = "hidden" ->
            IF ~e.present \/ noBox THEN "true"
            ELSE Bool(e.display = "none" \/ e.visibility = "hidden" \/ e.opacity = "0")
      [] OTHER ->
            IF ~e.present \/ noBox THEN "false"
            ELSE Bool(e.display # "none" /\ e.visibility # "hidden")

\* a return statement inside parentheses is no expression: the script does not parse
RunScript(script, e) ==
    IF script.find = "(statements)" THEN "error" ELSE RunCheck(script.check, e)

Prefixes ==
    {PfxXPath, PfxSlashes, PfxParenSlashes, PfxText, PfxVisibleText, PfxID, PfxClass, PfxTag,
     PfxLink, PfxPartialLink, PfxDataTestID, PfxAriaLabel, PfxRole}

SelXPath == <<"/", "/", "a">>
SelID == <<"i", "d", "=", "a">>
\* one selector for every prefix ParseSelector knows, and a CSS selector
ScriptSelectors == {SelCSS, SelXPath, SelID, SelRole} \cup { pfx \o <<"a">> : pfx \in Prefixes }
ScriptStates == {"attached", "detached", "visible", "hidden", "", "bogus"}

WaitScriptArgs ==
    { [fn |-> "generateWaitScript", selector |-> sel, state |-> st, element |-> e] :
        sel \in ScriptSelectors, st \in ScriptStates, e \in Elements }

CallGenerateWaitScript ==
    /\ fnArg.fn = "generateWaitScript"
    /\ LET script == generateWaitScript(fnArg.selector, fnArg.state) IN
       fnOut' = [fn |-> "generateWaitScript", script |-> script,
                 result |-> RunScript(script, fnArg.element),
                 lookup |-> WaitLookup(fnArg.selector)]
    /\ UNCHANGED <<sessionID, pc, call, ret, sent, waitVars, locatorVars, imageVars, fnArg,
                   hostVars>>

(***************************************************************************)
(* The selector strings ParseSelector is applied to: every prefix and      *)
(* every prefix short of its last character, followed by a short text.     *)
(***************************************************************************)
TailChars == {"a", "=", "/", "("}

RECURSIVE Strings(_)
Strings(n) ==
    IF n = 0 THEN {<<>>}
    ELSE LET shorter == Strings(n - 1) IN
         shorter \cup { Append(t, c) : t \in shorter, c \in TailChars }

SelectorInputs ==
    LET tails == Strings(MaxTail)
        heads == {<<>>} \cup Prefixes \cup { SubSeq(p, 1, Len(p) - 1) : p \in Prefixes }
    IN  { h \o t : h \in heads, t \in tails }

ParseSelectorArgs == { [fn |-> "ParseSelector", selector |-> sel] : sel \in SelectorInputs }

CallParseSelector ==
    /\ fnArg.fn = "ParseSelector"
    /\ fnOut' = [fn |-> "ParseSelector", parsed |-> ParseSelector(fnArg.selector)]
    /\ UNCHANGED <<sessionID, pc, call, ret, sent, waitVars, locatorVars, imageVars, fnArg,
                   hostVars>>

(***************************************************************************)
(* IsRegex and ParseRegex.  The strings are over the characters '/', 'a',  *)
(* '(' and ')': regexp.Compile accepts such a pattern exactly when its     *)
(* parentheses match ("missing closing )" and "unexpected )" otherwise).   *)
(***************************************************************************)
RegexChars == {"/", "a", "(", ")"}

RECURSIVE RegexStrings(_)
RegexStrings(n) ==
    IF n = 0 THEN {<<>>}
    ELSE LET shorter == RegexStrings(n - 1) IN
         shorter \cup { Append(t, c) : t \in shorter, c \in RegexChars }

HasSuffix(s, p) == Len(s) >= Len(p) /\ SubSeq(s, Len(s) - Len(p) + 1, Len(s)) = p

\* an IsRegex without the length test: "/" alone passes
IsRegexLoose(s) == HasPrefix(s, <<"/">>) /\ HasSuffix(s, <<"/">>)

IsRegex(s) == Len(s) >= 2 /\ HasPrefix(s, <<"/">>) /\ HasSuffix(s, <<"/">>)

\* the parser's stack depth after the first i characters of the pattern; -1 once a
\* ')' came with no group open
RECURSIVE OpenGroups(_, _)
OpenGroups(pattern, i) ==
    IF i = 0 THEN 0
    ELSE LET d == OpenGroups(pattern, i - 1) IN
         IF d < 0 THEN d
         ELSE IF pattern[i] = "(" THEN d + 1
         ELSE IF pattern[i] = ")" THEN d - 1
         ELSE d

RegexpCompile(pattern) ==
    LET d == OpenGroups(pattern, Len(pattern)) IN
    IF d < 0 THEN [err |-> Err("error parsing regexp: unexpected )"), re |-> <<>>]
    ELSE IF d > 0 THEN [err |-> Err("error parsing regexp: missing closing )"), re |-> <<>>]
    ELSE [err |-> Nil, re |-> pattern]

ParseRegex(s) ==
    IF ~IsRegex(s) THEN [err |-> Err("not a regex pattern"), re |-> <<>>]
    ELSE RegexpCompile(SubSeq(s, 2, Len(s) - 1))

ParseRegexArgs == { [fn |-> "ParseRegex", s |-> s] : s \in RegexStrings(MaxRegexLen) }

CallParseRegex ==
    /\ fnArg.fn = "ParseRegex"
    /\ fnOut' = [fn |-> "ParseRegex", isRegex |-> IsRegex(fnArg.s),
                 parsed |-> ParseRegex(fnArg.s)]
    /\ UNCHANGED <<sessionID, pc, call, ret, sent, waitVars, locatorVars, imageVars, fnArg,
                   hostVars>>

InitFun ==
    /\ InitClient
    /\ img1 = NoImage
    /\ img2 = NoImage
    /\ imgRes = NoImageResult
    /\ fnArg \in WaitScriptArgs \cup ParseSelectorArgs \cup ParseRegexArgs
    /\ fnOut = NoOut
    /\ NoHost

FunNext ==
    \/ CallGenerateWaitScript
    \/ CallParseSelector
    \/ CallParseRegex

SpecFun == InitFun /\ [][FunNext]_vars

(***************************************************************************)
(* browser.go: the safaridriver process shared by the module instances of  *)
(* one k6 process.  StartSafariDriver and stopSafariDriver hold            *)
(* safariDriverMu from their first statement to their return; a process is *)
(* named by its position in processes.                                     *)
(***************************************************************************)
clientVars ==
    <<sessionID, pc, call, ret, sent, waitVars, locatorVars, imageVars, funVars>>

Driver == [cmd |-> safariDriverCmd, refs |-> safariDriverRefs, procs |-> processes]

DriverResult(cmd, refs, procs, err, waiting) ==
    [cmd |-> cmd, refs |-> refs, procs |-> procs, err |-> err, waiting |-> waiting]

\* sync.Mutex.Lock returns once the mutex is free
TryLockUnguarded(mu) == TRUE

TryLock(mu) == mu = 0

\* StartSafariDriver up to cmd.Start: inUse is what isPortInUse(4444) finds, started
\* whether exec could start the command
StartSafariDriver(d, inUse, started) ==
    IF d.cmd # 0 THEN DriverResult(d.cmd, d.refs + 1, d.procs, FALSE, FALSE)
    ELSE IF inUse THEN DriverResult(d.cmd, d.refs + 1, d.procs, FALSE, FALSE)
    ELSE IF ~started THEN DriverResult(d.cmd, d.refs, d.procs, TRUE, FALSE)
    ELSE DriverResult(Len(d.procs) + 1, 1, Append(d.procs, "running"), FALSE, TRUE)

\* StartSafariDriver from waitForPort on: ready is whether the port opened in time
waitForPort(d, ready) ==
    IF ready THEN DriverResult(d.cmd, d.refs, d.procs, FALSE, FALSE)
    ELSE DriverResult(0, d.refs, [d.procs EXCEPT ![d.cmd] = "killed"], TRUE, FALSE)

stopSafariDriver(d) ==
    LET refs == IF d.refs > 0 THEN d.refs - 1 ELSE d.refs IN
    IF refs = 0 /\ d.cmd # 0
    THEN DriverResult(0, refs, [d.procs EXCEPT ![d.cmd] = "killed"], FALSE, FALSE)
    ELSE DriverResult(d.cmd, refs, d.procs, FALSE, FALSE)

SetDriver(d) ==
    /\ safariDriverCmd' = d.cmd
    /\ safariDriverRefs' = d.refs
    /\ processes' = d.procs

\* module.Exports calls StartSafariDriver
Exports(i) ==
    /\ instances[i].pc = "new"
    /\ instances' = [instances EXCEPT ![i].pc = "StartSafariDriver", ![i].op = "Exports"]
    /\ UNCHANGED <<clientVars, sessionVars, safariDriverMu, safariDriverCmd, safariDriverRefs,
                   processes>>

StartLock(i) ==
    /\ instances[i].pc = "StartSafariDriver"
    /\ TryLock(safariDriverMu)
    /\ safariDriverMu' = i
    /\ instances' = [instances EXCEPT
           ![i].pc = "started",
           ![i].entry = [cmd |-> safariDriverCmd, refs |-> safariDriverRefs]]
    /\ UNCHANGED <<clientVars, sessionVars, safariDriverCmd, safariDriverRefs, processes>>

StartSpawn(i) ==
    /\ instances[i].pc = "started"
    /\ \E inUse, started \in BOOLEAN :
        LET d == StartSafariDriver(Driver, inUse, started) IN
        /\ SetDriver(d)
        /\ instances' = [instances EXCEPT
               ![i].pc = IF d.waiting THEN "waitForPort" ELSE "unlock",
               ![i].err = d.err,
               ![i].acquired = IF d.err \/ d.waiting THEN 0 ELSE d.cmd]
    /\ UNCHANGED <<clientVars, sessionVars, safariDriverMu>>

StartWait(i) ==
    /\ instances[i].pc = "waitForPort"
    /\ \E ready \in BOOLEAN :
        LET d == waitForPort(Driver, ready) IN
        /\ SetDriver(d)
        /\ instances' = [instances EXCEPT
               ![i].pc = "unlock", ![i].err = d.err, ![i].acquired = d.cmd]
    /\ UNCHANGED <<clientVars, sessionVars, safariDriverMu>>

\* the deferred Unlock; Exports ignores the error and returns the browser
Unlock(i) ==
    /\ instances[i].pc = "unlock"
    /\ safariDriverMu' = 0
    /\ instances' = [instances EXCEPT ![i].pc = "script", ![i].op = "", ![i].entry = NoEntry]
    /\ UNCHANGED <<clientVars, sessionVars, safariDriverCmd, safariDriverRefs, processes>>

InstanceSessionResponses == {Http(200, VSession("s1")), Http(500, VMalformed)}
InstanceDeleteResponses == {Http(200, VNull), Transport}

\* the script awaits browser.newPage()
InstanceNewPage(i) ==
    /\ instances[i].pc = "script"
    /\ instances[i].page = "none"
    /\ ~instances[i].closed
    /\ \E resp \in InstanceSessionResponses :
        LET r == CreateSession(instances[i].sessionID, resp) IN
        instances' = [instances EXCEPT
            ![i].sessionID = r.sid,
            ![i].page = IF r.err = Nil THEN "open" ELSE "none"]
    /\ UNCHANGED <<clientVars, sessionVars, safariDriverMu, safariDriverCmd, safariDriverRefs,
                   processes>>

\* Page.Close and Browser.Close: DeleteSession, then stopSafariDriver
CloseStart(i, op) ==
    /\ instances[i].pc = "script"
    /\ \E resp \in InstanceDeleteResponses :
        instances' = [instances EXCEPT
            ![i].sessionID = DeleteSession(instances[i].sessionID, resp).sid,
            ![i].pc = "stopSafariDriver",
            ![i].op = op]
    /\ UNCHANGED <<clientVars, sessionVars, safariDriverMu, safariDriverCmd, safariDriverRefs,
                   processes>>

PageClose(i) ==
    /\ instances[i].page = "open"
    /\ CloseStart(i, "Page.Close")

BrowserClose(i) ==
    /\ ~instances[i].closed
    /\ CloseStart(i, "Browser.Close")

StopLock(i) ==
    /\ instances[i].pc = "stopSafariDriver"
    /\ TryLock(safariDriverMu)
    /\ safariDriverMu' = i
    /\ instances' = [instances EXCEPT ![i].pc = "stopping"]
    /\ UNCHANGED <<clientVars, sessionVars, safariDriverCmd, safariDriverRefs, processes>>

StopRelease(i) ==
    /\ instances[i].pc = "stopping"
    /\ SetDriver(stopSafariDriver(Driver))
    /\ instances' = [instances EXCEPT
           ![i].pc = "unlock",
           ![i].releases = @ + 1,
           ![i].page = IF instances[i].op = "Page.Close" THEN "closed" ELSE @,
           ![i].closed = instances[i].op = "Browser.Close" \/ @]
    /\ UNCHANGED <<clientVars, sessionVars, safariDriverMu>>

DriverNext ==
    \E i \in Instances :
        \/ Exports(i)
        \/ StartLock(i)
        \/ StartSpawn(i)
        \/ StartWait(i)
        \/ Unlock(i)
        \/ InstanceNewPage(i)
        \/ PageClose(i)
        \/ BrowserClose(i)
        \/ StopLock(i)
        \/ StopRelease(i)

SpecDriver == Init /\ [][DriverNext]_vars

(***************************************************************************)
(* One client shared by the goroutines of un-awaited promises: the script  *)
(* of one module instance calls browser.newPage() and page.close() (or     *)
(* browser.close()) without awaiting them, so that CreateSession and       *)
(* DeleteSession run in two goroutines on the client of the Browser.  The  *)
(* endpoint keeps the set of live sessions.  sessionID is read and written *)
(* with no lock; each read and each write is a step.                       *)
(***************************************************************************)
otherClientVars == <<pc, call, ret, sent, waitVars, locatorVars, imageVars, funVars>>

Go(g, where) == [goroutines EXCEPT ![g].pc = where]

\* module.Exports while a safaridriver listens on the port
LoadModule ==
    /\ instances[1].pc = "new"
    /\ SetDriver(StartSafariDriver(Driver, TRUE, TRUE))
    /\ instances' = [instances EXCEPT ![1].pc = "script"]
    /\ UNCHANGED <<clientVars, sessionVars, safariDriverMu>>

\* the script awaits a first browser.newPage(), which succeeds
FirstPage ==
    /\ instances[1].pc = "script"
    /\ sessions = {}
    /\ \A g \in Goroutines : goroutines[g].pc = "none"
    /\ sessionID' = CreateSession(sessionID, Http(200, VSession("s1"))).sid
    /\ sessions' = {"s1"}
    /\ UNCHANGED <<otherClientVars, goroutines, driverVars>>

\* Promise starts the goroutine that runs the function
Promise(g) ==
    /\ instances[1].pc = "script"
    /\ goroutines[g].pc = "none"
    /\ goroutines' = Go(g, "started")
    /\ UNCHANGED <<clientVars, sessions, driverVars>>

\* CreateSession up to httpClient.Do: the endpoint opens session "s2", or fails
CreateSend ==
    /\ goroutines["newPage"].pc = "started"
    /\ \E resp \in {Http(200, VSession("s2")), Http(500, VMalformed), Transport} :
        /\ goroutines' = [goroutines EXCEPT !["newPage"].pc = "posted",
                                            !["newPage"].resp = resp]
        /\ sessions' = IF resp.status = StatusOK THEN sessions \cup {"s2"} ELSE sessions
    /\ UNCHANGED <<clientVars, driverVars>>

\* CreateSession from the answer on: c.sessionID = sessionResp.Value.SessionID
CreateStore ==
    /\ goroutines["newPage"].pc = "posted"
    /\ LET r == CreateSession(sessionID, goroutines["newPage"].resp) IN
       /\ sessionID' = r.sid
       /\ goroutines' = [goroutines EXCEPT
              !["newPage"].pc = IF r.err = Nil THEN "created" ELSE "done",
              !["newPage"].id = r.sid]
    /\ UNCHANGED <<otherClientVars, sessions, driverVars>>

\* Browser.NewPage after CreateSession: SetWindowSize and injectScript read the id
NewPageSetup ==
    /\ goroutines["newPage"].pc = "created"
    /\ goroutines' = Go("newPage", "done")
    /\ UNCHANGED <<clientVars, sessions, driverVars>>

\* DeleteSession: if c.sessionID == ""
DeleteCheck ==
    /\ goroutines["close"].pc = "started"
    /\ goroutines' = Go("close", IF sessionID = "" THEN "deleted" ELSE "checked")
    /\ UNCHANGED <<clientVars, sessions, driverVars>>

\* DeleteSession: the request is built from c.sessionID as it is now
DeleteBuild ==
    /\ goroutines["close"].pc = "checked"
    /\ goroutines' = [goroutines EXCEPT !["close"].pc = "built", !["close"].id = sessionID]
    /\ UNCHANGED <<clientVars, sessions, driverVars>>

\* httpClient.Do: the endpoint deletes the session, knows none of that id, or the
\* exchange fails
DeleteSend ==
    /\ goroutines["close"].pc = "built"
    /\ LET id == goroutines["close"].id IN
       \E resp \in {Transport,
                    IF id \in sessions THEN Http(200, VNull)
                    ELSE Http(404, VMessage("invalid session id"))} :
        /\ goroutines' = [goroutines EXCEPT !["close"].pc = "answered",
                                            !["close"].resp = resp]
        /\ sessions' = IF resp.t = "transport" THEN sessions ELSE sessions \ {id}
    /\ UNCHANGED <<clientVars, driverVars>>

\* DeleteSession from the answer on: c.sessionID = "" unless the exchange failed
DeleteClear ==
    /\ goroutines["close"].pc = "answered"
    /\ LET r == DeleteSession(goroutines["close"].id, goroutines["close"].resp) IN
       sessionID' = IF r.sid = "" THEN "" ELSE sessionID
    /\ goroutines' = Go("close", "deleted")
    /\ UNCHANGED <<otherClientVars, sessions, driverVars>>

\* Page.Close and Browser.Close after DeleteSession: stopSafariDriver
CloseRelease ==
    /\ goroutines["close"].pc = "deleted"
    /\ SetDriver(stopSafariDriver(Driver))
    /\ goroutines' = Go("close", "done")
    /\ UNCHANGED <<clientVars, sessions, safariDriverMu, instances>>

SessionNext ==
    \/ LoadModule
    \/ FirstPage
    \/ Promise("newPage")
    \/ Promise("close")
    \/ CreateSend
    \/ CreateStore
    \/ NewPageSetup
    \/ DeleteCheck
    \/ DeleteBuild
    \/ DeleteSend
    \/ DeleteClear
    \/ CloseRelease

SpecSession == Init /\ [][SessionNext]_vars

(***************************************************************************)
(* Claims about the protocol client.                                       *)
(***************************************************************************)
Returned(op) == pc = "idle" /\ call.op = op

SessionOps ==
    {"Navigate", "GetCurrentURL", "GetTitle", "ExecuteScript", "FindElement",
     "FindAllElements", "WaitForSelector", "ClickElement", "SendKeys", "TakeScreenshot",
     "SetWindowSize", "GetAllCookies"}

\* C1: every operation other than CreateSession and DeleteSession, called while the
\* session id is empty, returns a "no active session" error, has sent no HTTP request
\* (no command and no condition-script poll) and leaves the session id empty.
C1_NoSessionNoRequest ==
    (pc = "idle" /\ call.op \in SessionOps /\ call.pre = "")
        => /\ IsNoActiveSession(ret.err)
           /\ sent = <<>>
           /\ lastPoll = "none"
           /\ sessionID = ""

C1_Witness ==
    /\ Returned("WaitForSelector")
    /\ call.pre = ""
    /\ call.sel = SelRole
    /\ IsNoActiveSession(ret.err)

WaitOps == {"Navigate", "WaitForSelector"}

\* C2: in every poll loop (WaitForSelector and Navigate's readiness polls) a failed
\* execution of the condition script does not end the wait: a wait that has polled
\* ends only satisfied after a poll that returned true, or timed out once the 30s
\* deadline has passed.
C2_FailedPollDoesNotEndWait ==
    (pc = "idle" /\ call.op \in WaitOps /\ lastPoll # "none")
        => \/ ret.err = Nil /\ lastPoll = "true"
           \/ IsTimeout(ret.err) /\ now >= WaitTimeout

\* C3: a wait whose condition never returned true returns its timeout error no
\* earlier than 30s after the wait started and no later than 30s plus one poll
\* interval, whatever the outcomes and durations of the script executions.
C3_TimeoutWithinOneInterval ==
    (pc = "idle" /\ call.op \in WaitOps /\ IsTimeout(ret.err))
        => /\ now >= WaitTimeout
           /\ now <= WaitTimeout + PollInterval

\* C4: after DeleteSession returns on a client that held a session id, the session
\* id is empty, whatever became of the delete request.
C4_DeleteAlwaysClears ==
    (Returned("DeleteSession") /\ call.pre # "") => sessionID = ""

\* C5: DeleteSession returns no error in every outcome; with an empty session id it
\* is a no-op that sends no HTTP request.
C5_DeleteNeverFails ==
    Returned("DeleteSession")
        => /\ ret.err = Nil
           /\ call.pre = "" => (sent = <<>> /\ sessionID = "")

C5_Witness ==
    /\ Returned("DeleteSession")
    /\ call.pre = "s1"
    /\ sent = <<"DELETE /session/{id}">>
    /\ ret.resps[1].t = "http"
    /\ ret.resps[1].status = 404

\* the session id a create-session response body carries
CarriedSessionID(resp) == IF resp.body.k = "session" THEN resp.body.s ELSE ""

\* C6: CreateSession stores the id carried in the response only when the exchange
\* succeeds (status 200, decodable body), and then returns no error; when it fails
\* (transport error, non-success status, undecodable body) it returns an error, and
\* whenever it returns an error the session id stored before the call is unchanged.
C6_CreateStoresOnlyOnSuccess ==
    Returned("CreateSession") =>
        LET resp == ret.resps[1]
            failed == \/ resp.t = "transport"
                      \/ resp.status \notin 200..299
                      \/ resp.body.k = "malformed"
        IN  /\ failed => ret.err # Nil
            /\ ret.err # Nil => sessionID = call.pre
            /\ ret.err = Nil => /\ resp.t = "http"
                                /\ resp.status = StatusOK
                                /\ sessionID = CarriedSessionID(resp)
                                /\ ret.val = sessionID

C6_Witness ==
    /\ Returned("CreateSession")
    /\ call.pre = "s1"
    /\ ret.resps[1].status = 404
    /\ CarriedSessionID(ret.resps[1]) = "s2"
    /\ sessionID = "s1"

\* what the endpoint answers to a lookup that matches nothing: the native plural
\* command and the plural script an empty list (or null), the singular script
\* null, the native singular command the W3C "no such element" status or a
\* reference that carries no id
NothingMatched ==
    /\ pc = "idle"
    /\ call.op \in {"FindElement", "FindAllElements"}
    /\ call.pre # ""
    /\ ret.resps # <<>>
    /\ LET resp == ret.resps[1]
           native == ParseSelector(call.sel).IsNative
       IN  IF call.op = "FindAllElements"
           THEN resp \in {Http(200, VList(<<>>)), Http(200, VNull)}
           ELSE IF native
           THEN resp \in {NoSuchElement, Http(200, VNull), Http(200, VRef(Absent, Absent))}
           ELSE resp = Http(200, VNull)

IsElementNotFound(e) == HasMsg(e, "element not found")

PolledWait ==
    /\ pc = "idle"
    /\ \/ call.op = "WaitForSelector" /\ call.pre # ""
       \/ /\ call.op = "Navigate"
          /\ EffectiveWaitUntil(call.arg) \in {"domcontentloaded", "networkidle"}
          /\ lastPoll # "none"

\* C13: WaitForSelector and the Navigate readiness poll return success only if an
\* execution of the condition script returned the boolean true; a result that is
\* false, null or no boolean never ends the wait as satisfied, and after a poll
\* that returned true no further poll is executed (the wait has returned).
C13_SatisfiedOnlyByTrue ==
    /\ (PolledWait /\ ret.err = Nil) => lastPoll = "true"
    /\ (call.op \in WaitOps /\ lastPoll = "true") => (pc = "idle" /\ ret.err = Nil)

\* a wait satisfied by a later poll than its first
C13_Witness ==
    /\ PolledWait
    /\ call.op = "WaitForSelector"
    /\ ret.err = Nil
    /\ lastPoll = "true"
    /\ now > PollInterval + MaxExecDur

\* the two outcomes of a WaitForSelector that started with a session
WaitForSelectorOutcome ==
    (Returned("WaitForSelector") /\ call.pre # "")
        => \/ ret.err = Nil
           \/ ret.err = ErrTimeout(call.sel, call.arg)

\* C14: every WaitForSelector on a client with an active session eventually returns
\* (each script execution returning), and ends either satisfied (nil) or timed out
\* with an error naming the selector and the state; it never returns the error of a
\* script execution.
C14_WaitForSelectorReturns ==
    /\ []WaitForSelectorOutcome
    /\ (pc = "select") ~> (pc = "idle")

\* a wait that timed out although its last script execution failed
C14_Witness ==
    /\ Returned("WaitForSelector")
    /\ call.pre # ""
    /\ lastPoll = "error"
    /\ ret.err = ErrTimeout(call.sel, call.arg)

ValidWaitUntils == {"load", "domcontentloaded", "networkidle"}

\* what Navigate returns for waitUntil 'load' in the state it was called in
LoadOutcome ==
    NavigateCommand(call.pre, IF ret.resps = <<>> THEN Transport ELSE ret.resps[1]).err

\* C15: a Navigate call on a client with an active session and a waitUntil value
\* other than empty, 'load', 'domcontentloaded' and 'networkidle' returns an
\* invalid-argument error and never starts a wait; nil options and an empty
\* waitUntil behave exactly as 'load'.
C15_InvalidWaitUntilRejected ==
    /\ (call.op = "Navigate" /\ EffectiveWaitUntil(call.arg) \notin ValidWaitUntils)
        => (pc = "idle" /\ lastPoll = "none")
    /\ (Returned("Navigate") /\ call.pre # ""
            /\ EffectiveWaitUntil(call.arg) \notin ValidWaitUntils)
        => HasMsg(ret.err, "invalid waitUntil option")
    /\ (Returned("Navigate") /\ call.arg \in {NilOptions, "", "load"})
        => (lastPoll = "none" /\ ret.err = LoadOutcome)

\* an unknown waitUntil value rejected after the navigate command succeeded
C15_Witness ==
    /\ Returned("Navigate")
    /\ call.pre # ""
    /\ call.arg = "commit"
    /\ sent = <<"POST /url">>
    /\ HasMsg(ret.err, "invalid waitUntil option")


\* Navigate returned for a waitUntil value it does not know, on a session whose id
\* can be put in a URL
UnknownWaitUntil ==
    /\ Returned("Navigate")
    /\ call.pre # ""
    /\ UrlOk(call.pre)
    /\ EffectiveWaitUntil(call.arg) \notin ValidWaitUntils

CommandSucceeded ==
    /\ ret.resps # <<>>
    /\ ret.resps[1].t = "http"
    /\ ret.resps[1].status = StatusOK

NavigateOrder ==
    /\ pc = "poll" => (call.op = "Navigate" /\ CommandSucceeded /\ sent = <<"POST /url">>)
    /\ (call.op = "Navigate" /\ lastPoll # "none") => CommandSucceeded
    /\ (Returned("Navigate") /\ ~CommandSucceeded) => ret.err # Nil
    /\ (call.op = "Navigate" /\ EffectiveWaitUntil(call.arg) = "load")
        => (pc = "idle" /\ lastPoll = "none")
    /\ (Returned("Navigate") /\ EffectiveWaitUntil(call.arg) = "networkidle"
            /\ ret.err = Nil)
        => (lastPoll = "true" /\ now >= SettleDelay)

\* the step that ends a network-idle wait
NetworkIdleEnds ==
    (pc = "poll" /\ pc' = "idle" /\ EffectiveWaitUntil(call.arg) = "networkidle")
        => IF ret'.err = Nil
           THEN lastPoll' = "true" /\ now' >= now + SettleDelay
           ELSE lastPoll' # "true" /\ now' < now + SettleDelay

\* C16: Navigate's readiness poll starts only after the navigate command succeeded:
\* a failed command executes no condition script, 'load' executes none at all, and
\* 'networkidle' returns success only after a poll that returned true (readyState
\* 'complete') followed by the 500ms settle delay; when the poll fails or times
\* out the settle delay is skipped and the error is returned.
C16_PollAfterCommand ==
    /\ []NavigateOrder
    /\ [][NetworkIdleEnds]_vars

\* a network-idle wait satisfied by a later poll than its first, then settled
C16_Witness ==
    /\ Returned("Navigate")
    /\ call.arg = "networkidle"
    /\ ret.err = Nil
    /\ lastPoll = "true"
    /\ now > SettleDelay + PollInterval

\* a reference object whose keys hold strings: both keys, or the legacy key alone
HasBothKeys(v) == v.k = "object" /\ IsStringKey(v.m) /\ IsStringKey(v.l)
HasLegacyOnly(v) == v.k = "object" /\ v.m = Absent /\ IsStringKey(v.l)
Resolvable(v) == HasBothKeys(v) \/ HasLegacyOnly(v)

\* the id the reference resolves to: modern key first, legacy key otherwise
Resolve(v) == IF HasBothKeys(v) THEN v.m ELSE v.l

\* the lookup of the current call was answered with 200
LookupAnswered ==
    /\ ret.resps # <<>>
    /\ ret.resps[1].t = "http"
    /\ ret.resps[1].status = StatusOK

\* C17: in all four lookup paths (native and custom, single and plural) a
\* reference object resolves to one string id: the value under the modern key
\* when both keys are present, the value under the legacy key 'ELEMENT' when only
\* that key is present.
C17_ModernKeyPreferred ==
    /\ (Returned("FindElement") /\ LookupAnswered /\ Resolvable(ret.resps[1].body))
        => (ret.err = Nil /\ ret.val = Resolve(ret.resps[1].body))
    /\ (Returned("FindAllElements") /\ LookupAnswered /\ ret.resps[1].body.k = "array"
            /\ \A i \in 1..Len(ret.resps[1].body.items) :
                    Resolvable(ret.resps[1].body.items[i]))
        => /\ ret.err = Nil
           /\ ret.val = [i \in 1..Len(ret.resps[1].body.items) |->
                            Resolve(ret.resps[1].body.items[i])]

\* a native lookup answered with both keys, the modern one holding the empty string
C17_Witness ==
    /\ Returned("FindElement")
    /\ ParseSelector(call.sel).IsNative
    /\ LookupAnswered
    /\ ret.resps[1].body = VRef("", "e2")
    /\ ret.val = "e2"


\* C37: whenever FindElement returns without error the returned element id is a
\* non-empty string, and every id in a FindAllElements result is a non-empty string,
\* on the native and on the custom (script) path and for every shape of reference
\* object the endpoint may return.
C37_ElementIdsNonEmpty ==
    /\ (Returned("FindElement") /\ ret.err = Nil) => ret.val # ""
    /\ (Returned("FindAllElements") /\ ret.err = Nil)
           => \A i \in 1..Len(ret.val) : ret.val[i] # ""

C37_Witness ==
    /\ Returned("FindElement")
    /\ call.pre # ""
    /\ ~ParseSelector(call.sel).IsNative
    /\ Len(ret.resps) = 1
    /\ ret.resps[1].status = StatusOK
    /\ ret.resps[1].body.m = ""
    /\ ret.err = Nil
    /\ ret.val = ""

\* the screenshot command fails: in transport, by status, in the decoding of the
\* body or of its base64 payload
ShotFails(resp) ==
    \/ resp.t = "transport"
    \/ resp.status # StatusOK
    \/ ~DecodesAsString(resp.body)
    \/ ~Base64Decodes(resp.body.s)

ViewportDim(v, i) == IF v.k = "viewport" THEN NumOr(v.items[i], 0) ELSE 0
ViewportDPR(v) == IF v.k = "viewport" THEN NumOr(v.items[3], 1) ELSE 1

\* the viewport cannot be measured, or the capture cannot be cropped to it
Degrades(vpResp, capture) ==
    LET v == ExecuteScript(call.pre, vpResp) IN
    \/ v.err # Nil
    \/ ~IsObject(v.val)
    \/ ViewportDim(v.val, 1) = 0
    \/ ViewportDim(v.val, 2) = 0
    \/ cropImage(capture, ViewportDim(v.val, 1) * ViewportDPR(v.val),
                 ViewportDim(v.val, 2) * ViewportDPR(v.val)).err # Nil

ShotCommands == Cardinality({ i \in 1..Len(sent) : sent[i] = "GET /screenshot" })

PageOps ==
    {"Page.Goto", "Page.URL", "Page.Title", "Page.Evaluate", "Page.Click", "Page.Fill",
     "Page.Screenshot", "Context.Cookies"}

\* C24: apart from DeleteSession and the script injection no operation swallows a
\* failure: whenever a client command invoked by a page- or browser-level operation
\* fails (GetCurrentURL in Page.URL, SetWindowSize in Browser.NewPage, the commands
\* behind Goto, Click, Fill, Title, Evaluate, Screenshot and Cookies), the operation
\* reports an error to its caller.
C24_NoFailureSwallowed ==
    /\ (pc = "idle" /\ call.op \in PageOps /\ ret.failed \ {"injectScript"} # {})
        => ret.err # Nil
    /\ (Returned("Browser.NewPage") /\ Len(ret.resps) = 3
            /\ SetWindowSize(sessionID, ret.resps[2]).err # Nil)
        => ret.err # Nil

\* Page.URL returns the empty string, and no error, when GetCurrentURL failed
C24_Witness ==
    /\ Returned("Page.URL")
    /\ call.pre # ""
    /\ ret.failed = {"GetCurrentURL"}
    /\ sent = <<"GET /url">>
    /\ ret.err = Nil
    /\ ret.val = ""


\* the executions of the injection script among the requests of the operation
Injections == Cardinality({ i \in 1..Len(sent) : sent[i] = "POST /execute/sync" })

\* C33: Page.Goto executes the injection script exactly once, and only after
\* Navigate has returned success; a failure of the injection does not reject the
\* Goto promise, and a failure of Navigate rejects it without any injection attempt.
C33_InjectOnceAfterNavigate ==
    Returned("Page.Goto") =>
        IF "Navigate" \in ret.failed
        THEN /\ ret.err # Nil
             /\ Injections = 0
        ELSE /\ ret.err = Nil
             /\ Injections = 1
             /\ Len(sent) = 2
             /\ sent[2] = "POST /execute/sync"

C33_Witness ==
    /\ Returned("Page.Goto")
    /\ call.arg = "networkidle"
    /\ ret.failed = {"injectScript"}
    /\ ret.err = Nil
    /\ Injections = 1


\* the client operations that send one request and report a status other than 200
StatusOps ==
    {"CreateSession", "GetAllCookies", "SetWindowSize", "GetCurrentURL", "GetTitle",
     "ExecuteScript", "FindElement", "FindAllElements", "ClickElement", "SendKeys"}

\* the operation received a status other than 200 with a body {value:{message}}
RemoteFailure ==
    /\ pc = "idle"
    /\ call.op \in StatusOps
    /\ Len(ret.resps) = 1
    /\ ret.resps[1].t = "http"
    /\ ret.resps[1].status # StatusOK
    /\ RemoteMessage(ret.resps[1]) # ""

\* C25: every client operation that receives a non-success status whose body carries
\* {value:{message}} returns an error that contains that remote message, not the
\* status code alone.
C25_RemoteMessageReported ==
    RemoteFailure
        => \E i \in 1..Len(ret.err) : ret.err[i].remote = RemoteMessage(ret.resps[1])

C25_Witness ==
    /\ Returned("GetTitle")
    /\ RemoteFailure
    /\ ret.err = ErrStatus("get title failed with status", 404, "")


SingleCommandOps ==
    {"CreateSession", "DeleteSession", "GetCurrentURL", "GetTitle", "ExecuteScript",
     "SendKeys", "SetWindowSize", "GetAllCookies"}

\* a single-command operation has returned; lookups count when the selector's
\* strategy is a native one
SingleCommandReturned ==
    /\ pc = "idle"
    /\ \/ call.op \in SingleCommandOps
       \/ /\ call.op \in {"FindElement", "FindAllElements"}
          /\ ParseSelector(call.sel).IsNative

\* the exchange failed in transport, by its status, or the operation reports an error
ExchangeFailed ==
    /\ Len(ret.resps) = 1
    /\ \/ ret.resps[1].t = "transport"
       \/ ret.resps[1].status # StatusOK
       \/ ret.err # Nil

\* C32: each single-command operation (CreateSession, DeleteSession, GetCurrentURL,
\* GetTitle, ExecuteScript, SendKeys, SetWindowSize, GetAllCookies, native
\* FindElement and FindAllElements) sends at most one HTTP request per call whatever
\* the outcome: a transport failure, a non-success status or a decode failure is
\* returned with no retry.
C32_AtMostOneRequest ==
    SingleCommandReturned
        => /\ Len(sent) <= 1
           /\ Len(ret.resps) = Len(sent)
           /\ ExchangeFailed => /\ Len(sent) = 1
                                /\ call.op # "DeleteSession" => ret.err # Nil

C32_Witness ==
    /\ Returned("GetTitle")
    /\ ret.resps = <<Transport>>
    /\ sent = <<"GET /title">>
    /\ ret.err = Err("failed to get title")

(***************************************************************************)
(* Claims about the Locator.                                               *)
(***************************************************************************)
LocatorOps ==
    {"Locator.Click", "Locator.TextContent", "Locator.Type", "Locator.Count", "Locator.All",
     "Locator.WaitFor"}

\* C8: a Locator whose element reference is bound never issues a find-element or
\* find-elements lookup in any of its methods (Click, TextContent, Type, Count, All,
\* WaitFor).
C8_BoundLocatorNeverLooksUp ==
    (call.op \in LocatorOps /\ call.bound # "")
        => /\ ret.lookups = 0
           /\ \A i \in 1..Len(sent) : sent[i] \notin {"POST /element", "POST /elements"}


ActionOps == {"Locator.Click", "Locator.TextContent", "Locator.Type"}

\* the FindElement an unbound locator's action runs, on the answer the action got
FreshLookup ==
    FindElement(call.pre, call.sel, IF ret.resps = <<>> THEN Transport ELSE ret.resps[1])

\* an action of an unbound locator starts with its own FindElement: the lookup's
\* requests come first, and a failed lookup is the action's result
LooksUpAfresh ==
    (pc = "idle" /\ call.op \in ActionOps /\ call.bound = "")
        => LET look == FreshLookup IN
           /\ ret.lookups = Sent(look)
           /\ Len(sent) >= Len(look.reqs)
           /\ SubSeq(sent, 1, Len(look.reqs)) = look.reqs
           /\ look.err # Nil
                  => /\ ret.err = Wrap("failed to find element with selector", look.err)
                     /\ sent = look.reqs
           /\ look.err = Nil /\ ret.err = Nil => Len(sent) = Len(look.reqs) + 1

\* a step that gives the script another locator sends nothing and returns nothing
LocatorBuiltSilently == loc' # loc => UNCHANGED <<sessionID, pc, call, ret, sent>>

\* a step in which a Locator method returns leaves the locator as it was
LocatorKept == (call'.op \in LocatorOps /\ <<call, ret, sent, pc>>' # <<call, ret, sent, pc>>)
                   => loc' = loc

\* C27: Page.Locator sends no request; an unbound Locator performs a fresh
\* FindElement at every Click, TextContent and Type; and no Locator method modifies
\* the locator's selector or element id, so that nothing resolved in one action is
\* reused by the next.
C27_UnboundLocatorLooksUpEachTime ==
    /\ []LooksUpAfresh
    /\ [][LocatorBuiltSilently /\ LocatorKept]_vars

C27_Witness ==
    /\ Returned("Locator.Click")
    /\ call.bound = ""
    /\ loc = [selector |-> call.sel, elementID |-> ""]
    /\ found # <<>>
    /\ ret.lookups = 1
    /\ ret.err = Nil
    /\ Len(sent) = 2


(***************************************************************************)
(* Claims about concurrent use of one client.                              *)
(***************************************************************************)
BothDone == \A g \in Goroutines : goroutines[g].pc = "done"

\* the client holds no id and the endpoint no session, or the client holds the id
\* of the one live session
SessionAgrees ==
    \/ sessionID = "" /\ sessions = {}
    \/ sessions = {sessionID}

\* a step of DeleteSession that empties the id empties the id its request named
ErasesOwnId ==
    (goroutines["close"].pc = "answered" /\ sessionID # "" /\ sessionID' = "")
        => sessionID = goroutines["close"].id

\* C28: when a CreateSession and a DeleteSession overlap on one client (un-awaited
\* newPage() and page.close() promises, each in its goroutine), every interleaving
\* ends with the session id empty and no undeleted session at the endpoint, or
\* equal to the id of the one live session: DeleteSession never erases an id that
\* a CreateSession stored after the delete request was built.
C28_ConcurrentSessionIdSafe ==
    /\ [](BothDone => SessionAgrees)
    /\ [][ErasesOwnId]_vars

C28_Witness ==
    /\ BothDone
    /\ goroutines["close"].id = "s1"
    /\ goroutines["newPage"].id = "s2"
    /\ sessionID = ""
    /\ sessions = {"s2"}


\* the DeleteSession call got the endpoint's confirmation
DeleteSucceeded ==
    /\ goroutines["close"].pc \in {"answered", "deleted", "done"}
    /\ goroutines["close"].resp = Http(200, VNull)

\* every CreateSession of the client had stored its id before the DeleteSession
\* built its request: the calls did not overlap
CreatedBeforeDelete ==
    \/ goroutines["newPage"].pc = "none"
    \/ goroutines["newPage"].pc \in {"created", "done"}
           /\ goroutines["close"].id = goroutines["newPage"].id

\* C38: no session created through a client is left undeleted: after a sequence of
\* NewPage/CreateSession and Close/DeleteSession calls on one client that ends with
\* a successful DeleteSession, every session the client created has been deleted
\* at the endpoint (a second CreateSession does not orphan the first).
C38_NoSessionLeftUndeleted ==
    (DeleteSucceeded /\ CreatedBeforeDelete) => sessions = {}

C38_Witness ==
    /\ BothDone
    /\ DeleteSucceeded
    /\ goroutines["newPage"].resp = Http(200, VSession("s2"))
    /\ goroutines["close"].id = "s2"
    /\ sessionID = ""
    /\ sessions = {"s1"}


(***************************************************************************)
(* Claims about the safaridriver process.                                  *)
(***************************************************************************)
\* the instance acquired a process of this program and has not closed its browser
InUseBy(i) == instances[i].acquired # 0 /\ ~instances[i].closed

\* the acquisitions of an instance: its Exports called StartSafariDriver once
Acquisitions(i) == IF instances[i].pc \in {"new", "StartSafariDriver"} THEN 0 ELSE 1

\* C29: a safaridriver process started by this module is not stopped while some
\* module instance that acquired it via StartSafariDriver has not yet closed its
\* browser: each acquisition (one per Exports call) is matched by exactly one
\* stopSafariDriver release, also in a script that calls page.close() and then
\* browser.close().
C29_DriverOutlivesUsers ==
    \A i \in Instances :
        /\ InUseBy(i) => processes[instances[i].acquired] = "running"
        /\ instances[i].releases <= Acquisitions(i)
        /\ instances[i].closed /\ instances[i].pc = "script" => instances[i].releases = 1

C29_Witness ==
    /\ instances[1].page = "closed"
    /\ instances[1].closed
    /\ instances[1].releases = 2
    /\ InUseBy(2)
    /\ instances[2].acquired = 1
    /\ instances[2].pc = "script"
    /\ processes = <<"killed">>


\* the instances between the Lock and the Unlock of StartSafariDriver or
\* stopSafariDriver
Critical ==
    { i \in Instances : instances[i].pc \in {"started", "waitForPort", "stopping", "unlock"} }

RunningProcesses == { p \in 1..Len(processes) : processes[p] = "running" }

DriverInvariant ==
    /\ Cardinality(Critical) <= 1
    /\ safariDriverRefs >= 0
    /\ Cardinality(RunningProcesses) <= 1
    /\ RunningProcesses \subseteq {safariDriverCmd}

\* the process is killed in this step
Killed(p) == processes[p] = "running" /\ processes'[p] = "killed"

KilledByStop ==
    \E i \in Instances :
        /\ instances[i].pc = "stopping"
        /\ instances'[i].pc = "unlock"
        /\ safariDriverRefs = 1
        /\ safariDriverRefs' = 0

KilledByFailedWait ==
    \E i \in Instances :
        /\ instances[i].pc = "waitForPort"
        /\ instances'[i].pc = "unlock"
        /\ instances'[i].err

\* C30: under any interleaving of StartSafariDriver and stopSafariDriver the two run
\* in mutual exclusion, the reference count is never negative, at most one process
\* started by this program exists at a time, and that process is killed only by a
\* stopSafariDriver call that brings the count to 0 or by a failed readiness wait
\* inside StartSafariDriver.
C30_DriverLifecycle ==
    /\ []DriverInvariant
    /\ [][\A p \in 1..Len(processes) : Killed(p) => KilledByStop \/ KilledByFailedWait]_vars

C30_Witness ==
    /\ instances[1].pc = "unlock"
    /\ instances[1].op = "Browser.Close"
    /\ instances[2].pc = "StartSafariDriver"
    /\ safariDriverMu = 1
    /\ safariDriverRefs = 0
    /\ safariDriverCmd = 0
    /\ processes = <<"killed">>


\* StartSafariDriver is about to return in instance i
StartReturns(i) == instances[i].pc = "unlock" /\ instances[i].op = "Exports"

\* C31: when StartSafariDriver returns an error (the process could not be started or
\* did not become ready in time) the reference count and the process handle are as
\* they were before the call, and whenever it returns nil the reference count is
\* exactly one higher than before the call.
C31_StartLeavesCountConsistent ==
    \A i \in Instances :
        StartReturns(i) =>
            IF instances[i].err
            THEN /\ safariDriverRefs = instances[i].entry.refs
                 /\ safariDriverCmd = instances[i].entry.cmd
            ELSE safariDriverRefs = instances[i].entry.refs + 1

C31_Witness ==
    /\ StartReturns(1)
    /\ instances[1].err
    /\ instances[1].entry = [cmd |-> 0, refs |-> 0]
    /\ processes = <<"killed">>
    /\ safariDriverCmd = 0
    /\ safariDriverRefs = 1

(***************************************************************************)
(* Claims about the image functions.                                       *)
(***************************************************************************)
Counted == imgRes.op = "PixelDifferenceCount" /\ imgRes.err = Nil

\* the 8-bit value of a 16-bit channel
Byte(v) == v \div 256

\* the pixels of the compared buffers in which one of the four 8-bit channels differs
DifferingPixels ==
    LET bufs == ScaleToMatch(Decoded(img1), Decoded(img2)) IN
    { p \in LoopPositions(bufs) :
        \E i \in 1..4 : Byte(bufs[1].px[p][i]) # Byte(bufs[2].px[p][i]) }

\* C9: PixelDifferenceCount compares channel values at 8-bit precision: with
\* threshold 255 it returns 0 for every pair of images, and with threshold 0 it
\* returns the number of pixels in which at least one of the four channels differs.
C9_ThresholdIsEightBit ==
    Counted =>
        /\ imgRes.threshold = U32(0, 255) => imgRes.count = 0
        /\ imgRes.threshold = U32(0, 0) => imgRes.count = Cardinality(DifferingPixels)

Compared == imgRes.op # "none" /\ imgRes.err = Nil

\* C10: CompareImages, PixelDifferenceCount and CreateDiffImage run their per-pixel
\* loop over two buffers of identical width and height; when the input dimensions
\* differ the common size is that of the smaller image and no image is enlarged on
\* any axis, also when one image is wider and the other is taller.
C10_NeverEnlarges ==
    Compared =>
        /\ imgRes.buf1 = imgRes.buf2
        /\ imgRes.buf1 \in {Dims(img1), Dims(img2)}
        /\ imgRes.buf1[1] <= Min(img1.w, img2.w)
        /\ imgRes.buf1[2] <= Min(img1.h, img2.h)

\* CompareImages ran on two decoded images
Scored == imgRes.op = "CompareImages" /\ imgRes.err = Nil

\* every pixel of a differs from every pixel of b by 0 against 255 on all four
\* channels of the PNG
DiffersMaximally(a, b) ==
    \A p \in Positions(a.w, a.h) : \A q \in Positions(b.w, b.h) : \A i \in 1..4 :
        {Byte(a.px[p][i]), Byte(b.px[q][i])} = {0, 255}

\* C19: the similarity score of CompareImages is exactly 1.0 when both inputs are
\* the same image, and exactly 0.0 when every pixel differs maximally (0 against
\* 255) on all four channels.
C19_ScoreEndpoints ==
    Scored =>
        /\ img1 = img2 => imgRes.score[1] = imgRes.score[2]
        /\ DiffersMaximally(img1, img2) => imgRes.score[1] = 0

\* transparent white against opaque black: only alpha differs once premultiplied
C19_Witness ==
    /\ Scored
    /\ DiffersMaximally(img1, img2)
    /\ img1 = Solid(1, 1, 6)
    /\ img2 = Solid(1, 1, 1)
    /\ imgRes.score[1] * 4 = imgRes.score[2] * 3

\* C20: for every pair of decodable images, pairs of different dimensions included,
\* CompareImages returns no error and a score s with 0 <= s <= 1; it returns an
\* error only when one of the inputs cannot be decoded.
C20_ScoreInUnitInterval ==
    imgRes.op = "CompareImages" =>
        /\ imgRes.err # Nil <=> (img1 = NoImage \/ img2 = NoImage)
        /\ imgRes.err = Nil =>
            /\ imgRes.score[2] > 0
            /\ 0 <= imgRes.score[1]
            /\ imgRes.score[1] <= imgRes.score[2]

\* images of different dimensions that score strictly between 0 and 1
C20_Witness ==
    /\ Scored
    /\ img1.w # img2.w
    /\ img1.h # img2.h
    /\ 0 < imgRes.score[1]
    /\ imgRes.score[1] < imgRes.score[2]

\* CreateDiffImage returned an image
Diffed == imgRes.op = "CreateDiffImage" /\ imgRes.err = Nil

\* the two images brought to one size, as 8-bit PNG channel values
Normalised ==
    LET bufs == ScaleToMatch(img1, img2)
    IN  [k \in 1..2 |-> [p \in Positions(bufs[k].w, bufs[k].h) |->
                            [i \in 1..4 |-> Byte(bufs[k].px[p][i])]]]

ExceedsThreshold(p) ==
    \E i \in 1..4 : abs(Normalised[1][p][i] - Normalised[2][p][i]) > DiffThreshold

GrayOf(c) == LET g == (c[1] + c[2] + c[3]) \div 3 IN <<g, g, g, c[4]>>

\* C21: every pixel of the image CreateDiffImage returns is pure red (255,0,0,255)
\* exactly when the absolute 8-bit difference of some channel between the two
\* normalised images exceeds 10, and otherwise gray with R=G=B the integer average
\* of the first image's R, G and B and the first image's alpha; the output has
\* the normalised dimensions.
C21_DiffPixels ==
    Diffed =>
        /\ Dims(imgRes.diff) = imgRes.buf1
        /\ \A p \in Positions(imgRes.diff.w, imgRes.diff.h) :
            imgRes.diff.px[p] = IF ExceedsThreshold(p) THEN <<255, 0, 0, 255>>
                                ELSE GrayOf(Normalised[1][p])

\* transparent white against transparent black: the colour channels differ by 255
\* in the PNGs and the pixel comes out gray
C21_Witness ==
    /\ Diffed
    /\ img1 = Solid(1, 1, 6)
    /\ img2 = Solid(1, 1, 5)
    /\ imgRes.diff.px[<<0, 0>>] = <<0, 0, 0, 0>>

\* C22: CreateDiffImage on two decodable images returns the encoded diff buffer
\* whether or not an output path was given and whether or not writing to that
\* path succeeded; an empty path causes no file write.
C22_DiffAlwaysReturned ==
    (imgRes.op = "CreateDiffImage" /\ img1 # NoImage /\ img2 # NoImage)
        => /\ imgRes.err = Nil
           /\ imgRes.diff # NoImage
           /\ imgRes.filePath = "" => ~imgRes.written

\* a diff of two decodable images whose file could not be written
C22_Witness ==
    /\ imgRes.op = "CreateDiffImage"
    /\ img1 # NoImage
    /\ img2 # NoImage
    /\ WriteFails(imgRes.filePath)
    /\ imgRes.diff = NoImage
    /\ HasMsg(imgRes.err, "failed to write diff image")


Cropped == imgRes.op = "cropImage" /\ img1 # NoImage

\* C34: cropImage returns an image of size (min(w, imgW), min(h, imgH)) whose pixel
\* (x, y) equals the source pixel (x, y) at every position, a crop anchored at the
\* top-left corner and clamped to the image bounds; when w >= imgW and h >= imgH
\* the original bytes are returned unchanged.
C34_CropTopLeft ==
    (Cropped /\ imgRes.crop[1] >= 1 /\ imgRes.crop[2] >= 1)
        => /\ imgRes.err = Nil
           /\ imgRes.diff.w = Min(imgRes.crop[1], img1.w)
           /\ imgRes.diff.h = Min(imgRes.crop[2], img1.h)
           /\ \A p \in Positions(imgRes.diff.w, imgRes.diff.h) : imgRes.diff.px[p] = img1.px[p]
           /\ (imgRes.crop[1] >= img1.w /\ imgRes.crop[2] >= img1.h)
                  => imgRes.original /\ imgRes.diff = img1

C34_Witness ==
    /\ Cropped
    /\ img1 = Solid(2, 2, 6)
    /\ imgRes.crop = <<1, 1>>
    /\ imgRes.err = Nil
    /\ imgRes.diff = Image(1, 1, [p \in Positions(1, 1) |-> <<0, 0, 0, 0>>])


\* C39: CompareImages and PixelDifferenceCount are symmetric in their two image
\* arguments: swapping the images gives the same similarity score and the same
\* count of differing pixels, also for pairs of different dimensions.
C39_SymmetricInImages ==
    /\ Scored => imgRes.score = CompareImages(img2, img1).score
    /\ Counted => imgRes.count = PixelDifferenceCount(img2, img1, imgRes.threshold).count

C39_Witness ==
    /\ Counted
    /\ imgRes.threshold = U32(0, 0)
    /\ img1 = Dot(1, 2, 1)
    /\ img2 = Solid(2, 1, 1)
    /\ imgRes.count = 0
    /\ PixelDifferenceCount(img2, img1, imgRes.threshold).count = 1


\* the order of two uint32 values
U32LessEq(u, v) == u.hi < v.hi \/ (u.hi = v.hi /\ u.lo <= v.lo)

\* C40: PixelDifferenceCount is non-increasing in its threshold over the whole
\* uint32 range: for thresholds t1 <= t2 the count for t2 is at most the count for
\* t1, also for thresholds of 2^31 and above, which the code converts to int32.
C40_CountNonIncreasing ==
    Counted =>
        \A t1 \in Thresholds :
            U32LessEq(t1, imgRes.threshold)
                => imgRes.count <= PixelDifferenceCount(img1, img2, t1).count

C40_Witness ==
    /\ Counted
    /\ imgRes.threshold = U32(32768, 0)
    /\ img1 = Solid(2, 2, 1)
    /\ img2 = img1
    /\ imgRes.count = 4
    /\ PixelDifferenceCount(img1, img2, U32(0, 0)).count = 0

(***************************************************************************)
(* Claims about the wait conditions and the selector parser.               *)
(***************************************************************************)
Ran == fnOut.fn = "generateWaitScript"

\* whether the wait condition of a state holds for the element of the page
Holds(state) == RunScript(generateWaitScript(fnArg.selector, state), fnArg.element) = "true"

KnownStates == {"attached", "detached", "visible", "hidden"}

\* C11: for every state string outside {attached, detached, visible, hidden} the
\* argument is not rejected (a script is built), and the condition polled returns
\* the same boolean as the "visible" condition for every element condition.
C11_UnknownStateIsVisible ==
    (Ran /\ fnArg.state \notin KnownStates)
        => fnOut.result = RunScript(generateWaitScript(fnArg.selector, "visible"),
                                    fnArg.element)

\* C12: for every element condition the "hidden" condition is true exactly when the
\* "visible" condition is not, and the "detached" condition exactly when the
\* "attached" condition is not; an absent element counts as hidden and detached.
C12_HiddenNegatesVisible ==
    Ran => /\ fnArg.state = "hidden" =>
                /\ (fnOut.result = "true") <=> ~Holds("visible")
                /\ ~fnArg.element.present => fnOut.result = "true"
           /\ fnArg.state = "detached" =>
                /\ (fnOut.result = "true") <=> ~Holds("attached")
                /\ ~fnArg.element.present => fnOut.result = "true"

\* the prefix rules as a table: a rule keeps the whole input or cuts its prefix off
Rule(prefix, strategy, isNative, keep) ==
    [prefix |-> prefix, strategy |-> strategy, isNative |-> isNative, keep |-> keep]

PrefixTable ==
    {Rule(PfxXPath, StrategyXPath, TRUE, FALSE),
     Rule(PfxSlashes, StrategyXPath, TRUE, TRUE),
     Rule(PfxParenSlashes, StrategyXPath, TRUE, TRUE),
     Rule(PfxText, StrategyText, FALSE, FALSE),
     Rule(PfxVisibleText, StrategyVisibleText, FALSE, FALSE),
     Rule(PfxID, StrategyID, TRUE, FALSE),
     Rule(PfxClass, StrategyClassName, TRUE, FALSE),
     Rule(PfxTag, StrategyTagName, TRUE, FALSE),
     Rule(PfxLink, StrategyLinkText, TRUE, FALSE),
     Rule(PfxPartialLink, StrategyPartialLinkText, TRUE, FALSE),
     Rule(PfxDataTestID, StrategyDataTestID, FALSE, FALSE),
     Rule(PfxAriaLabel, StrategyAriaLabel, FALSE, FALSE),
     Rule(PfxRole, StrategyRole, FALSE, FALSE)}

\* the rules whose prefix the input starts with, in no order
Matching(selector) == { rule \in PrefixTable : HasPrefix(selector, rule.prefix) }

Applied(rule, selector) ==
    ParsedSelector(rule.strategy,
                   IF rule.keep THEN selector
                   ELSE SubSeq(selector, Len(rule.prefix) + 1, Len(selector)),
                   rule.isNative)

Parsed == fnOut.fn = "ParseSelector"

\* C18: ParseSelector maps every input to exactly one (strategy, value, isNative)
\* triple: for an input that starts with a listed prefix the strategy and native
\* flag of that prefix and the input without the prefix (the whole input for bare
\* "//" and "(//"), for every other input (CSS selector, the input, native); no
\* input matches two prefix rules, so the order of the tests does not matter.
C18_ParseSelectorTable ==
    Parsed =>
        /\ Cardinality(Matching(fnArg.selector)) <= 1
        /\ \A rule \in Matching(fnArg.selector) :
                fnOut.parsed = Applied(rule, fnArg.selector)
        /\ Matching(fnArg.selector) = {}
            => fnOut.parsed = ParsedSelector(StrategyCSSSelector, fnArg.selector, TRUE)

\* a bare "//" input that goes on with another prefix's text is kept whole
C18_Witness ==
    /\ Parsed
    /\ fnArg.selector = PfxSlashes \o <<"a", "=">>
    /\ fnOut.parsed = ParsedSelector(StrategyXPath, <<"/", "/", "a", "=">>, TRUE)


RegexParsed == fnOut.fn = "ParseRegex"

\* the patterns of at most n characters regexp.Compile accepts, by the grammar
\*   P ::= "" | 'a' P | '/' P | '(' P ')' P
RECURSIVE ValidPatterns(_)
ValidPatterns(n) ==
    IF n = 0 THEN {<<>>}
    ELSE LET shorter == ValidPatterns(n - 1)
             inner == IF n = 1 THEN {} ELSE ValidPatterns(n - 2)
         IN  shorter
             \cup { <<c>> \o t : c \in {"a", "/"}, t \in shorter }
             \cup { <<"(">> \o u \o <<")">> \o t :
                      <<u, t>> \in { q \in inner \X inner : Len(q[1]) + Len(q[2]) + 2 <= n } }

Slashed(s) == Len(s) >= 2 /\ s[1] = "/" /\ s[Len(s)] = "/"

Interior(s) == [i \in 1..(Len(s) - 2) |-> s[i + 1]]

\* C26: IsRegex(s) is true exactly when s has at least 2 characters and begins and
\* ends with '/'.  ParseRegex(s) fails with the error "not a regex pattern" when
\* IsRegex(s) is false, fails with the compile error when the interior of s (s
\* without its first and last character) is no valid pattern, and otherwise
\* succeeds with the expression compiled from that interior.
C26_RegexDelimiters ==
    RegexParsed =>
        LET s == fnArg.s
            parsed == fnOut.parsed
        IN  /\ fnOut.isRegex = Slashed(s)
            /\ ~Slashed(s) => parsed.err = Err("not a regex pattern")
            /\ Slashed(s) /\ Interior(s) \notin ValidPatterns(MaxRegexLen)
                   => /\ parsed.err # Nil
                      /\ parsed.err # Err("not a regex pattern")
            /\ Slashed(s) /\ Interior(s) \in ValidPatterns(MaxRegexLen)
                   => /\ parsed.err = Nil
                      /\ parsed.re = Interior(s)

C26_Witness ==
    /\ RegexParsed
    /\ fnArg.s = <<"/", "(", "/">>
    /\ fnOut.isRegex
    /\ fnOut.parsed.err = Err("error parsing regexp: missing closing )")


\* C35: for every selector the element lookup embedded in the WaitForSelector
\* condition script uses the strategy and the value FindElement uses for that
\* selector (as ParseSelector classifies it), for all twelve strategies, so that the
\* "attached" condition is true exactly when FindElement on the same selector would
\* find an element.
C35_WaitLookupMatchesFind ==
    Ran => /\ fnOut.lookup = FindLookup(fnArg.selector)
           /\ fnArg.state = "attached"
                  => ((fnOut.result = "true") <=> fnArg.element.present)

C35_Witness ==
    /\ Ran
    /\ fnArg.selector = SelID
    /\ fnArg.state = "attached"
    /\ fnArg.element.present
    /\ FindLookup(fnArg.selector) = Lookup(StrategyID, <<"a">>)
    /\ fnOut.lookup = Lookup(StrategyCSSSelector, <<"a">>)
    /\ fnOut.result = "error"

====
